---- MODULE Spec2Model ----
(***************************************************************************)
(* Model of the stage scripts of docspec-ai/github-ai-actions              *)
(* (.github/actions/ai-automation/scripts).                                *)
(*                                                                         *)
(* Every stage is a run-to-completion process.  A JavaScript string is a   *)
(* sequence of one-character strings; a placeholder name, an error text    *)
(* fragment or an opaque word is one element of such a sequence.           *)
(* process.env is the function env, a missing variable being Undefined.    *)
(* Network requests and subprocesses are appended to calls when issued;    *)
(* their outcome is chosen by the environment when the response arrives.   *)
(***************************************************************************)
EXTENDS Integers, Sequences, FiniteSets, TLC

VARIABLES
    stage,      \* which script this process runs
    pc,         \* position of the process in the script
    env,        \* process.env
    envRead,    \* names of the environment variables read so far
    calls,      \* external operations issued so far, in order
    log,        \* console.warn / console.error lines, in order
    outputs,    \* core.setOutput calls, in order: <<name, value>>
    failure,    \* message given to core.setFailed, or NoFailure
    exitCode,   \* Running, 0 or 1
    mem         \* the local variables of the running function

vars == <<stage, pc, env, envRead, calls, log, outputs, failure, exitCode, mem>>

(***************************************************************************)
(* Strings                                                                 *)
(***************************************************************************)
Undefined == <<"<undefined>">>
NoFailure == <<"<none>">>
Running == 0 - 1



\* JavaScript truthiness of a string-or-undefined value
Truthy(s) == s # Undefined /\ s # <<>>

IsSpace(c) == c \in {" ", "\n", "\t"}

RECURSIVE TrimStart(_)
TrimStart(s) ==
    IF s # <<>> /\ IsSpace(Head(s)) THEN TrimStart(Tail(s)) ELSE s

RECURSIVE TrimEnd(_)
TrimEnd(s) ==
    IF s # <<>> /\ IsSpace(s[Len(s)]) THEN TrimEnd(SubSeq(s, 1, Len(s) - 1)) ELSE s

\* String.prototype.trim
Trim(s) == TrimEnd(TrimStart(s))

Digits == <<"0", "1", "2", "3", "4", "5", "6", "7", "8", "9">>

IsDigit(c) == \E d \in 1..10 : Digits[d] = c

DigitVal(c) == (CHOOSE d \in 1..10 : Digits[d] = c) - 1

\* the longest prefix of s that consists of decimal digits
RECURSIVE DigitPrefix(_)
DigitPrefix(s) ==
    IF s # <<>> /\ IsDigit(Head(s)) THEN <<Head(s)>> \o DigitPrefix(Tail(s)) ELSE <<>>

RECURSIVE DigitsValue(_)
DigitsValue(ds) ==
    IF ds = <<>> THEN 0
    ELSE 10 * DigitsValue(SubSeq(ds, 1, Len(ds) - 1)) + DigitVal(ds[Len(ds)])

NaN == [nan |-> TRUE, val |-> 0]

\* parseInt(s, 10): leading white space is skipped, one sign is accepted, the
\* longest run of digits is read and whatever follows it is ignored
parseInt(s) ==
    LET t == TrimStart(s)
        neg == t # <<>> /\ Head(t) = "-"
        u == IF t # <<>> /\ Head(t) \in {"-", "+"} THEN Tail(t) ELSE t
        ds == DigitPrefix(u)
    IN  IF ds = <<>> THEN NaN
        ELSE [nan |-> FALSE, val |-> IF neg THEN 0 - DigitsValue(ds) ELSE DigitsValue(ds)]

isNaN(n) == n.nan

HexDigits == Digits \o <<"a", "b", "c", "d", "e", "f">>

RECURSIVE HexPrefix(_)
HexPrefix(s) ==
    IF s # <<>> /\ (\E d \in 1..16 : HexDigits[d] = Head(s))
    THEN <<Head(s)>> \o HexPrefix(Tail(s)) ELSE <<>>

RECURSIVE HexValue(_)
HexValue(ds) ==
    IF ds = <<>> THEN 0
    ELSE 16 * HexValue(SubSeq(ds, 1, Len(ds) - 1))
            + (CHOOSE d \in 1..16 : HexDigits[d] = ds[Len(ds)]) - 1

\* parseInt(s) without a radix: as parseInt(s, 10), except that digits after
\* a 0x prefix are read as hexadecimal
parseIntNoRadix(s) ==
    LET t == TrimStart(s)
        neg == t # <<>> /\ Head(t) = "-"
        u == IF t # <<>> /\ Head(t) \in {"-", "+"} THEN Tail(t) ELSE t
        hex == Len(u) >= 2 /\ u[1] = "0" /\ u[2] \in {"x", "X"}
        hs == IF hex THEN HexPrefix(SubSeq(u, 3, Len(u))) ELSE <<>>
    IN  IF ~hex THEN parseInt(s)
        ELSE IF hs = <<>> THEN NaN
        ELSE [nan |-> FALSE, val |-> IF neg THEN 0 - HexValue(hs) ELSE HexValue(hs)]

RECURSIVE NatToString(_)
NatToString(n) ==
    IF n < 10 THEN <<Digits[n + 1]>>
    ELSE NatToString(n \div 10) \o <<Digits[(n % 10) + 1]>>

\* String(n) of an integer n
String(n) == IF n < 0 THEN <<"-">> \o NatToString(0 - n) ELSE NatToString(n)

\* String.prototype.split on a one-character separator
RECURSIVE split(_, _)
split(s, sep) ==
    IF \E i \in 1..Len(s) : s[i] = sep
    THEN LET i == CHOOSE j \in 1..Len(s) : s[j] = sep /\ \A k \in 1..(j - 1) : s[k] # sep
         IN  <<SubSeq(s, 1, i - 1)>> \o split(SubSeq(s, i + 1, Len(s)), sep)
    ELSE <<s>>

\* s contains t as a contiguous substring
Contains(s, t) ==
    \E i \in 1..(Len(s) - Len(t) + 1) : SubSeq(s, i, i + Len(t) - 1) = t

(***************************************************************************)
(* utils.ts                                                                *)
(***************************************************************************)
\* parseRepository: the error, or the owner and repo
parseRepository(repository) ==
    LET parts == split(repository, "/")
        owner == parts[1]
        repo == IF Len(parts) >= 2 THEN parts[2] ELSE Undefined
    IN  IF ~Truthy(owner) \/ ~Truthy(repo)
        THEN [ok |-> FALSE,
              error |-> <<"Invalid REPOSITORY format: ">> \o repository
                          \o <<". Expected 'owner/repo'">>]
        ELSE [ok |-> TRUE, owner |-> owner, repo |-> repo]

\* getErrorMessage / the catch blocks: the message of the thrown Error
getErrorMessage(error) == error

(***************************************************************************)
(* Process plumbing shared by the stages                                   *)
(***************************************************************************)
\* process.env.NAME
Read(names) == envRead' = envRead \cup names

\* core.setOutput(name, value)
setOutput(outs, name, value) == Append(outs, <<name, value>>)

OutputNames == {outputs[i][1] : i \in 1..Len(outputs)}

OutputValue(name) ==
    outputs[CHOOSE i \in 1..Len(outputs) : outputs[i][1] = name
                /\ \A j \in (i + 1)..Len(outputs) : outputs[j][1] # name][2]

\* main returns normally: the process ends with exit code 0
Return ==
    /\ pc' = "done"
    /\ exitCode' = 0
    /\ failure' = failure

\* catch (error) { core.setFailed(prefix + message); process.exit(1) }
Fail(prefix, message) ==
    /\ pc' = "done"
    /\ failure' = <<prefix>> \o getErrorMessage(message)
    /\ exitCode' = 1

NetworkCalls == {i \in 1..Len(calls) : calls[i].kind = "network"}

(***************************************************************************)
(* extract-pr-number.ts                                                    *)
(***************************************************************************)
ResolverEnvNames ==
    {"PR_NUMBER", "GITHUB_EVENT_NAME", "GITHUB_REPOSITORY", "GITHUB_TOKEN",
     "GITHUB_EVENT_PULL_REQUEST_NUMBER", "GITHUB_EVENT_ISSUE_NUMBER"}

\* the variables the resolver reads after the explicit number
ContextEnvNames == ResolverEnvNames \ {"PR_NUMBER"}

ExplicitValues ==
    {Undefined, <<>>, <<" ">>, <<"4", "2">>, <<" ", "4", "2", " ">>,
     <<"4", "2", "a">>, <<"a", "b">>, <<"-", "7">>, <<"0">>}

RepositoryValues ==
    {Undefined, <<>>, <<"o", "/", "r">>, <<"o">>, <<"/", "r">>, <<"o", "/">>}

TokenValues == {Undefined, <<>>, <<"t">>}

PullRequestNumberValues == {Undefined, <<>>, <<"1", "7">>, <<"x">>, <<" ", "1", "7">>}

IssueNumberValues == {Undefined, <<>>, <<"9">>, <<"x">>, <<"9", "x">>}

EventNameValues == {Undefined, <<"issue_comment">>, <<"pull_request">>}

\* what octokit.rest.issues.get can answer: a rejection, or an issue whose
\* pull_request field is absent or carries a url
IssueResponses ==
    {[ok |-> FALSE, message |-> <<"network error">>],
     [ok |-> TRUE, pull_request |-> FALSE, url |-> Undefined],
     [ok |-> TRUE, pull_request |-> TRUE, url |-> <<>>],
     [ok |-> TRUE, pull_request |-> TRUE, url |-> <<"h", "/", "pulls", "/", "9">>],
     [ok |-> TRUE, pull_request |-> TRUE, url |-> <<"h", "/", "pulls", "/", "3", "1">>],
     [ok |-> TRUE, pull_request |-> TRUE, url |-> <<"h", "/", "pulls", "/">>],
     [ok |-> TRUE, pull_request |-> TRUE, url |-> <<"h", "/", "pulls", "/", "x">>]}

ResolverInit ==
    /\ stage = "extract-pr-number"
    /\ pc = "explicit"
    /\ \E explicit \in ExplicitValues, repository \in RepositoryValues,
          token \in TokenValues, pullRequestNumber \in PullRequestNumberValues,
          issueNumber \in IssueNumberValues, eventName \in EventNameValues :
        env = [PR_NUMBER |-> explicit,
               GITHUB_REPOSITORY |-> repository,
               GITHUB_TOKEN |-> token,
               GITHUB_EVENT_PULL_REQUEST_NUMBER |-> pullRequestNumber,
               GITHUB_EVENT_ISSUE_NUMBER |-> issueNumber,
               GITHUB_EVENT_NAME |-> eventName]
    /\ envRead = {}
    /\ calls = <<>>
    /\ log = <<>>
    /\ outputs = <<>>
    /\ failure = NoFailure
    /\ exitCode = Running
    /\ mem = <<>>

ResolverFail(message) == Fail("Failed to extract PR number: ", message)

\* ExplicitPRNumber without its return: the number is output and main goes on
ExplicitPRNumber_NoReturn ==
    /\ stage = "extract-pr-number" /\ pc = "explicit"
    /\ Read({"PR_NUMBER"})
    /\ LET explicitPRNumber == env.PR_NUMBER
           prNum == parseInt(Trim(explicitPRNumber))
       IN  outputs' = IF Truthy(explicitPRNumber) /\ Trim(explicitPRNumber) # <<>> /\ ~isNaN(prNum)
                      THEN setOutput(outputs, "pr_number", String(prNum.val))
                      ELSE outputs
    /\ pc' = "context"
    /\ UNCHANGED <<stage, env, calls, log, mem, failure, exitCode>>

\* main, lines 45-54: the explicitly provided PR number
ExplicitPRNumber ==
    /\ stage = "extract-pr-number" /\ pc = "explicit"
    /\ Read({"PR_NUMBER"})
    /\ LET explicitPRNumber == env.PR_NUMBER
           prNum == parseInt(Trim(explicitPRNumber))
       IN  IF Truthy(explicitPRNumber) /\ Trim(explicitPRNumber) # <<>> /\ ~isNaN(prNum)
           THEN /\ outputs' = setOutput(outputs, "pr_number", String(prNum.val))
                /\ Return
           ELSE /\ pc' = "context"
                /\ UNCHANGED <<outputs, failure, exitCode>>
    /\ UNCHANGED <<stage, env, calls, log, mem>>

\* GitHubContext that does not ask for the token
GitHubContext_TokenNotRequired ==
    /\ stage = "extract-pr-number" /\ pc = "context"
    /\ Read({"GITHUB_EVENT_NAME", "GITHUB_REPOSITORY", "GITHUB_TOKEN"})
    /\ LET eventName == IF Truthy(env.GITHUB_EVENT_NAME) THEN env.GITHUB_EVENT_NAME ELSE <<>>
           repository == IF Truthy(env.GITHUB_REPOSITORY) THEN env.GITHUB_REPOSITORY ELSE <<>>
           parsed == parseRepository(repository)
       IN  IF ~Truthy(repository)
           THEN /\ ResolverFail(<<"GITHUB_REPOSITORY environment variable is required">>)
                /\ mem' = mem
           ELSE IF ~parsed.ok
           THEN /\ ResolverFail(parsed.error)
                /\ mem' = mem
           ELSE /\ pc' = "pull_request"
                /\ mem' = [eventName |-> eventName, owner |-> parsed.owner, repo |-> parsed.repo]
                /\ UNCHANGED <<failure, exitCode>>
    /\ UNCHANGED <<stage, env, calls, log, outputs>>

\* main, lines 56-74: the GitHub context and the API client
GitHubContext ==
    /\ stage = "extract-pr-number" /\ pc = "context"
    /\ Read({"GITHUB_EVENT_NAME", "GITHUB_REPOSITORY", "GITHUB_TOKEN"})
    /\ LET eventName == IF Truthy(env.GITHUB_EVENT_NAME) THEN env.GITHUB_EVENT_NAME ELSE <<>>
           repository == IF Truthy(env.GITHUB_REPOSITORY) THEN env.GITHUB_REPOSITORY ELSE <<>>
           githubToken == env.GITHUB_TOKEN
           parsed == parseRepository(repository)
       IN  IF ~Truthy(repository)
           THEN /\ ResolverFail(<<"GITHUB_REPOSITORY environment variable is required">>)
                /\ mem' = mem
           ELSE IF ~Truthy(githubToken)
           THEN /\ ResolverFail(<<"GITHUB_TOKEN environment variable is required">>)
                /\ mem' = mem
           ELSE IF ~parsed.ok
           THEN /\ ResolverFail(parsed.error)
                /\ mem' = mem
           ELSE /\ pc' = "pull_request"
                /\ mem' = [eventName |-> eventName, owner |-> parsed.owner, repo |-> parsed.repo]
                /\ UNCHANGED <<failure, exitCode>>
    /\ UNCHANGED <<stage, env, calls, log, outputs>>

\* PullRequestEvent that never uses the event's number
PullRequestEvent_Ignored ==
    /\ stage = "extract-pr-number" /\ pc = "pull_request"
    /\ Read({"GITHUB_EVENT_PULL_REQUEST_NUMBER"})
    /\ pc' = "issue_comment"
    /\ UNCHANGED <<stage, env, calls, log, mem, outputs, failure, exitCode>>

\* main, lines 76-85: the number of a pull_request event
PullRequestEvent ==
    /\ stage = "extract-pr-number" /\ pc = "pull_request"
    /\ Read({"GITHUB_EVENT_PULL_REQUEST_NUMBER"})
    /\ LET pullRequestNumber == env.GITHUB_EVENT_PULL_REQUEST_NUMBER
           prNum == parseInt(pullRequestNumber)
       IN  IF Truthy(pullRequestNumber) /\ ~isNaN(prNum)
           THEN /\ outputs' = setOutput(outputs, "pr_number", String(prNum.val))
                /\ Return
           ELSE /\ pc' = "issue_comment"
                /\ UNCHANGED <<outputs, failure, exitCode>>
    /\ UNCHANGED <<stage, env, calls, log, mem>>

\* main, lines 87-92: the issue of an issue_comment event is looked up
IssueCommentEvent ==
    /\ stage = "extract-pr-number" /\ pc = "issue_comment"
    /\ Read({"GITHUB_EVENT_ISSUE_NUMBER"})
    /\ LET issueNumber == env.GITHUB_EVENT_ISSUE_NUMBER
           issueNum == parseInt(issueNumber)
       IN  IF Truthy(issueNumber) /\ ~isNaN(issueNum)
           THEN /\ pc' = "issues.get"
                /\ mem' = mem @@ ("issueNum" :> issueNum.val)
                /\ calls' = Append(calls, [kind |-> "network", op |-> "issues.get",
                                           args |-> <<mem.owner, mem.repo, String(issueNum.val)>>])
           ELSE /\ pc' = "no_pr_number"
                /\ UNCHANGED <<mem, calls>>
    /\ UNCHANGED <<stage, env, log, outputs, failure, exitCode>>

\* extractPRNumberFromIssue that takes every fetched issue for a pull request
extractPRNumberFromIssue_AnyIssue(response, issueNumber) ==
    IF ~response.ok
    THEN [null |-> TRUE, val |-> 0,
          warn |-> << <<"Failed to fetch issue #">> \o String(issueNumber) \o <<": ">>
                       \o response.message >>]
    ELSE [null |-> FALSE, val |-> issueNumber, warn |-> <<>>]

\* extractPRNumberFromIssue, lines 19-40, on the answer of issues.get:
\* the PR number, or null with the warning that was logged
extractPRNumberFromIssue(response, issueNumber) ==
    IF ~response.ok
    THEN [null |-> TRUE, val |-> 0,
          warn |-> << <<"Failed to fetch issue #">> \o String(issueNumber) \o <<": ">>
                       \o response.message >>]
    ELSE LET url == response.url
             urlParts == split(url, "/")
             last == urlParts[Len(urlParts)]
             prNumber == parseInt(IF Truthy(last) THEN last ELSE <<>>)
         IN  IF response.pull_request /\ Truthy(url) /\ ~isNaN(prNumber)
             THEN [null |-> FALSE, val |-> prNumber.val, warn |-> <<>>]
             ELSE [null |-> TRUE, val |-> 0, warn |-> <<>>]

\* main, lines 92-99: issues.get settles and main resumes
IssueLookupSettles ==
    /\ stage = "extract-pr-number" /\ pc = "issues.get"
    /\ \E response \in IssueResponses :
        LET prNumber == extractPRNumberFromIssue(response, mem.issueNum)
        IN  /\ log' = log \o prNumber.warn
            /\ mem' = mem @@ ("response" :> response)
            /\ IF ~prNumber.null
               THEN /\ outputs' = setOutput(outputs, "pr_number", String(prNumber.val))
                    /\ Return
               ELSE /\ ResolverFail(<<"Issue #">> \o String(mem.issueNum)
                                       \o <<" is not a pull request">>)
                    /\ UNCHANGED outputs
    /\ UNCHANGED <<stage, env, envRead, calls>>

\* main, lines 103-106: no PR number could be extracted
NoPRNumber ==
    /\ stage = "extract-pr-number" /\ pc = "no_pr_number"
    /\ ResolverFail(<<"Could not extract PR number from event context. Event name: ">>
                       \o mem.eventName
                       \o <<". Please provide pr_number input explicitly, or trigger from a PR-related event.">>)
    /\ UNCHANGED <<stage, env, envRead, calls, log, outputs, mem>>

ResolverNext ==
    \/ ExplicitPRNumber
    \/ GitHubContext
    \/ PullRequestEvent
    \/ IssueCommentEvent
    \/ IssueLookupSettles
    \/ NoPRNumber

SpecResolver == ResolverInit /\ [][ResolverNext]_vars

(***************************************************************************)
(* Template substitution: utils.ts substituteVariables and                 *)
(* prepare-prompt.ts substituteVariables                                   *)
(*                                                                         *)
(* A string that goes through substitution is a sequence of marked         *)
(* characters [c, o]: c is the character (a placeholder name is one        *)
(* character) and o the position in the template it was copied from, 0 for *)
(* a character of a replacement value.  The code reads c only.             *)
(***************************************************************************)
Mark(s) == [i \in 1..Len(s) |-> [c |-> s[i], o |-> i]]

Inserted(s) == [i \in 1..Len(s) |-> [c |-> s[i], o |-> 0]]

Text(m) == [i \in 1..Len(m) |-> m[i].c]

\* the text of the placeholder of a name: {{NAME}}
Placeholder(name) == <<"{", "{", name, "}", "}">>

PlaceholderLen == 5

\* the regular expression \{\{key\}\} matches s at position i
MatchesAt(s, i, key) ==
    /\ i + PlaceholderLen - 1 <= Len(s)
    /\ Text(SubSeq(s, i, i + PlaceholderLen - 1)) = Placeholder(key)

\* replace without the g flag: only the first match is replaced
RECURSIVE ReplaceAll_FirstOnly(_, _, _)
ReplaceAll_FirstOnly(s, key, value) ==
    IF s = <<>> THEN <<>>
    ELSE IF MatchesAt(s, 1, key)
    THEN Inserted(value) \o SubSeq(s, PlaceholderLen + 1, Len(s))
    ELSE <<Head(s)>> \o ReplaceAll_FirstOnly(Tail(s), key, value)

\* a pattern \{\{\w+\}\} that matches the placeholder of any name
RECURSIVE ReplaceAll_AnyName(_, _, _)
ReplaceAll_AnyName(s, key, value) ==
    IF s = <<>> THEN <<>>
    ELSE IF PlaceholderLen <= Len(s) /\ s[1].c = "{" /\ s[2].c = "{"
            /\ s[3].c \notin {"{", "}"} /\ s[4].c = "}" /\ s[5].c = "}"
    THEN Inserted(value) \o ReplaceAll_AnyName(SubSeq(s, PlaceholderLen + 1, Len(s)), key, value)
    ELSE <<Head(s)>> \o ReplaceAll_AnyName(Tail(s), key, value)

\* result.replace(new RegExp(`\\{\\{${key}\\}\\}`, "g"), () => value): the
\* matches are found from left to right in s, never in an inserted value
RECURSIVE ReplaceAll(_, _, _)
ReplaceAll(s, key, value) ==
    IF s = <<>> THEN <<>>
    ELSE IF MatchesAt(s, 1, key)
    THEN Inserted(value) \o ReplaceAll(SubSeq(s, PlaceholderLen + 1, Len(s)), key, value)
    ELSE <<Head(s)>> \o ReplaceAll(Tail(s), key, value)

\* escapeVariable (prepare-prompt.ts): returns its argument
escapeVariable(value) == value

\* the loop over Object.entries(variables): one replacement after the other,
\* each on the result of the one before
RECURSIVE ReplaceEach(_, _)
ReplaceEach(s, entries) ==
    IF entries = <<>> THEN s
    ELSE ReplaceEach(ReplaceAll(s, Head(entries)[1], Head(entries)[2]), Tail(entries))

\* a substitution that, given no variables, clears every placeholder
substituteVariables_EmptyMappingClears(template, variables) ==
    IF variables = <<>> THEN ReplaceAll_AnyName(template, "", <<>>)
    ELSE ReplaceEach(template, variables)

\* utils.ts substituteVariables; variables is the sequence of the entries
\* <<key, value>> in the order of Object.entries
substituteVariables(template, variables) == ReplaceEach(template, variables)

\* Array.prototype.join("\n")
RECURSIVE join(_, _)
join(parts, sep) ==
    IF parts = <<>> THEN <<>>
    ELSE IF Len(parts) = 1 THEN parts[1]
    ELSE parts[1] \o <<sep>> \o join(Tail(parts), sep)

\* prepare-prompt.ts substituteVariables(template, data): the eight
\* replacements in the order of lines 204-223
substituteVariablesPrompt(template, data, REPOSITORY) ==
    ReplaceEach(template,
        << <<"PR_DIFF", escapeVariable(data.diff)>>,
           <<"PR_TITLE", escapeVariable(data.title)>>,
           <<"PR_NUMBER", escapeVariable(String(data.number))>>,
           <<"PR_AUTHOR", escapeVariable(data.author)>>,
           <<"PR_BODY", escapeVariable(data.body)>>,
           <<"CHANGED_FILES", escapeVariable(join(data.changedFiles, "\n"))>>,
           <<"REPOSITORY", escapeVariable(IF Truthy(REPOSITORY) THEN REPOSITORY ELSE <<>>)>>,
           <<"BASE_BRANCH", escapeVariable(data.baseBranch)>> >>)

RecognizedNames ==
    {"PR_DIFF", "PR_TITLE", "PR_NUMBER", "PR_AUTHOR", "PR_BODY", "CHANGED_FILES",
     "REPOSITORY", "BASE_BRANCH"}

\* the entries of the mapping that substituteVariablesPrompt applies
PromptVariables(data, REPOSITORY) ==
    << <<"PR_DIFF", data.diff>>, <<"PR_TITLE", data.title>>,
       <<"PR_NUMBER", String(data.number)>>, <<"PR_AUTHOR", data.author>>,
       <<"PR_BODY", data.body>>, <<"CHANGED_FILES", join(data.changedFiles, "\n")>>,
       <<"REPOSITORY", IF Truthy(REPOSITORY) THEN REPOSITORY ELSE <<>> >>,
       <<"BASE_BRANCH", data.baseBranch>> >>

(***************************************************************************)
(* The substitution functions applied to bounded inputs                    *)
(***************************************************************************)
MaxPieces == 3

\* names that occur in templates: two that a mapping may define, one that no
\* mapping defines
TemplateNames == {"PR_DIFF", "PR_BODY", "OTHER"}

KeyNames == {"PR_DIFF", "PR_BODY"}

\* a template is a concatenation of at most MaxPieces of these
Pieces ==
    {<<"{">>, <<"}">>, <<"x">>} \cup {Placeholder(n) : n \in TemplateNames}

Values ==
    {<<>>, <<"x">>, Placeholder("PR_BODY"), Placeholder("PR_DIFF"),
     <<"PR_BODY", "}", "}">>, <<"$", "&">>}

RECURSIVE Flatten(_)
Flatten(ps) == IF ps = <<>> THEN <<>> ELSE Head(ps) \o Flatten(Tail(ps))

Templates == {Flatten(ps) : ps \in UNION {[1..n -> Pieces] : n \in 0..MaxPieces}}

\* the mappings: no key, one key, or both keys in either order
Mappings ==
    {<<>>}
        \cup {<< <<k, v>> >> : k \in KeyNames, v \in Values}
        \cup {e \in {<< <<k1, v1>>, <<k2, v2>> >> :
                          k1 \in KeyNames, k2 \in KeyNames, v1 \in Values, v2 \in Values} :
                 e[1][1] # e[2][1]}

\* a PR snapshot with the given diff and body
SnapshotOf(diff, body) ==
    [title |-> <<"t">>, number |-> 42, author |-> <<"unknown">>, body |-> body,
     baseBranch |-> <<"main">>, headRef |-> <<"abc">>, baseRef |-> <<"main">>,
     changedFiles |-> << <<"a.ts">>, <<"b.ts">> >>, diff |-> diff]

SubstInit ==
    /\ stage = "substitute"
    /\ pc = "call"
    /\ env = <<>>
    /\ envRead = {}
    /\ calls = <<>>
    /\ log = <<>>
    /\ outputs = <<>>
    /\ failure = NoFailure
    /\ exitCode = Running
    /\ \E t \in Templates :
        \/ \E v \in Mappings :
            mem = [fn |-> "utils", template |-> Mark(t), variables |-> v]
        \/ \E diff \in Values, body \in Values :
            mem = [fn |-> "prepare-prompt", template |-> Mark(t),
                   variables |-> PromptVariables(SnapshotOf(diff, body), <<"o", "/", "r">>),
                   data |-> SnapshotOf(diff, body)]

\* utils.ts: substituteVariables(template, variables)
CallSubstituteVariables ==
    /\ stage = "substitute" /\ pc = "call" /\ mem.fn = "utils"
    /\ mem' = mem @@ ("result" :> substituteVariables(mem.template, mem.variables))
    /\ pc' = "returned"
    /\ UNCHANGED <<stage, env, envRead, calls, log, outputs, failure, exitCode>>

\* prepare-prompt.ts: substituteVariables(promptTemplate, prData)
CallSubstituteVariablesPrompt ==
    /\ stage = "substitute" /\ pc = "call" /\ mem.fn = "prepare-prompt"
    /\ mem' = mem @@ ("result" :>
                  substituteVariablesPrompt(mem.template, mem.data, <<"o", "/", "r">>))
    /\ pc' = "returned"
    /\ UNCHANGED <<stage, env, envRead, calls, log, outputs, failure, exitCode>>

\* utils.ts: substituteVariables(result, {}) on the result of the first call
CallSubstituteEmpty ==
    /\ stage = "substitute" /\ pc = "returned"
    /\ mem' = mem @@ ("again" :> substituteVariables(mem.result, <<>>))
    /\ pc' = "done"
    /\ UNCHANGED <<stage, env, envRead, calls, log, outputs, failure, exitCode>>

SubstNext ==
    \/ CallSubstituteVariables
    \/ CallSubstituteVariablesPrompt
    \/ CallSubstituteEmpty

SpecSubst == SubstInit /\ [][SubstNext]_vars

(***************************************************************************)
(* prepare-prompt.ts                                                       *)
(***************************************************************************)
PrepareEnvNames ==
    {"PROMPT_TEMPLATE", "PR_NUMBER", "GITHUB_TOKEN", "REPOSITORY", "BASE_BRANCH"}

PromptTemplateValues ==
    {Undefined, <<>>,
     <<"Review ">> \o Placeholder("PR_NUMBER") \o <<":">> \o Placeholder("PR_DIFF"),
     Placeholder("PR_TITLE") \o <<" by ">> \o Placeholder("PR_AUTHOR"),
     Placeholder("CHANGED_FILES") \o Placeholder("BASE_BRANCH") \o Placeholder("OTHER")}

PrepareNumberValues ==
    {Undefined, <<>>, <<"4", "2">>, <<"0">>, <<"-", "5">>, <<"a", "b">>, <<"0", "x", "1", "f">>}

BaseBranchValues == {Undefined, <<>>, <<"release">>}

\* what the GraphQL query can answer: a rejection, a null pull request, or a
\* pull request (author and files may be missing; its texts are free, and
\* may hold the text of a placeholder)
GraphqlResponses ==
    {[ok |-> FALSE, message |-> <<"Bad credentials">>],
     [ok |-> TRUE, pullRequest |-> FALSE],
     [ok |-> TRUE, pullRequest |-> TRUE, title |-> <<"Fix">>, body |-> <<"Body">>,
      author |-> <<"alice">>, baseRefName |-> <<"main">>, headRefOid |-> <<"abc">>,
      files |-> TRUE, paths |-> << <<"a.ts">>, <<"b.ts">> >>],
     [ok |-> TRUE, pullRequest |-> TRUE, title |-> <<>>, body |-> <<>>,
      author |-> Undefined, baseRefName |-> <<"dev">>, headRefOid |-> <<"def">>,
      files |-> FALSE, paths |-> <<>>],
     [ok |-> TRUE, pullRequest |-> TRUE, title |-> <<"Use ">> \o Placeholder("PR_BODY"),
      body |-> <<"Body">>, author |-> <<"bob">>, baseRefName |-> <<"main">>,
      headRefOid |-> <<"abc">>, files |-> TRUE, paths |-> << <<"a.ts">> >>]}

\* what octokit.rest.repos.get can answer
ReposResponses ==
    {[ok |-> FALSE, message |-> <<"Not Found">>],
     [ok |-> TRUE, default_branch |-> <<"main">>]}

\* how the two git subprocesses of fetchPRData can end
GitOutcomes ==
    {[fetchOk |-> TRUE, diffOk |-> TRUE, output |-> <<"diff --git">>, message |-> <<>>],
     [fetchOk |-> TRUE, diffOk |-> TRUE, output |-> <<>>, message |-> <<>>],
     [fetchOk |-> FALSE, diffOk |-> TRUE, output |-> <<>>,
      message |-> <<"Command failed: git fetch">>],
     [fetchOk |-> TRUE, diffOk |-> FALSE, output |-> <<>>,
      message |-> <<"Command failed: git diff">>]}

GitFetch(ref, ok) == [kind |-> "git", op |-> "fetch", args |-> <<"origin", ref>>, ok |-> ok]

GitDiff(base, head, ok) ==
    [kind |-> "git", op |-> "diff", args |-> <<"origin/" , base, head>>, ok |-> ok]

GraphqlQuery(owner, repo, number) ==
    [kind |-> "network", op |-> "graphql", args |-> <<owner, repo, String(number)>>]

ReposGet(owner, repo) == [kind |-> "network", op |-> "repos.get", args |-> <<owner, repo>>]

UnableToFetchDiff(message) ==
    <<"[", "Unable to fetch diff", ": ">> \o message \o <<"]">>

\* fetchPRData without the try/catch around the git commands
fetchPRData_GitFailureThrows(response, git, prNumber) ==
    IF ~response.ok THEN [ok |-> FALSE, error |-> response.message, git |-> <<>>]
    ELSE IF ~response.pullRequest
    THEN [ok |-> FALSE, error |-> <<"PR #">> \o String(prNumber) \o <<" not found">>,
          git |-> <<>>]
    ELSE [ok |-> FALSE, error |-> git.message,
          git |-> <<GitFetch(response.baseRefName, git.fetchOk)>>]

\* fetchPRData without the check for a null pull request
fetchPRData_NullNotChecked(response, git, prNumber) ==
    IF ~response.ok THEN [ok |-> FALSE, error |-> response.message, git |-> <<>>]
    ELSE [ok |-> TRUE,
          git |-> <<GitFetch(Undefined, git.fetchOk)>>,
          data |-> [title |-> <<>>, number |-> prNumber, author |-> <<"unknown">>,
                    body |-> <<>>, baseBranch |-> Undefined, headRef |-> Undefined,
                    baseRef |-> Undefined, changedFiles |-> <<>>,
                    diff |-> UnableToFetchDiff(git.message)]]

\* fetchPRData, lines 149-194, on the answer of the GraphQL query and with the
\* given outcome of its git commands: the error thrown or the snapshot, and
\* the git commands it ran
fetchPRData(response, git, prNumber) ==
    IF ~response.ok THEN [ok |-> FALSE, error |-> response.message, git |-> <<>>]
    ELSE IF ~response.pullRequest
    THEN [ok |-> FALSE, error |-> <<"PR #">> \o String(prNumber) \o <<" not found">>,
          git |-> <<>>]
    ELSE LET pr == response
             changedFiles == IF pr.files THEN pr.paths ELSE <<>>
             baseRef == pr.baseRefName
             headRef == pr.headRefOid
             ran == IF git.fetchOk
                    THEN <<GitFetch(baseRef, TRUE), GitDiff(baseRef, headRef, git.diffOk)>>
                    ELSE <<GitFetch(baseRef, FALSE)>>
             diff == IF git.fetchOk /\ git.diffOk THEN git.output
                     ELSE UnableToFetchDiff(git.message)
         IN  [ok |-> TRUE, git |-> ran,
              data |-> [title |-> pr.title,
                        number |-> prNumber,
                        author |-> IF Truthy(pr.author) THEN pr.author ELSE <<"unknown">>,
                        body |-> pr.body,
                        baseBranch |-> pr.baseRefName,
                        headRef |-> pr.headRefOid,
                        baseRef |-> pr.baseRefName,
                        changedFiles |-> changedFiles,
                        diff |-> diff]]

PrepareInit ==
    /\ stage = "prepare-prompt"
    /\ pc = "validate"
    /\ \E template \in PromptTemplateValues, number \in PrepareNumberValues,
          token \in TokenValues, repository \in RepositoryValues,
          baseBranch \in BaseBranchValues :
        env = [PROMPT_TEMPLATE |-> template,
               PR_NUMBER |-> number,
               GITHUB_TOKEN |-> token,
               REPOSITORY |-> repository,
               BASE_BRANCH |-> baseBranch]
    /\ envRead = {}
    /\ calls = <<>>
    /\ log = <<>>
    /\ outputs = <<>>
    /\ failure = NoFailure
    /\ exitCode = Running
    /\ mem = <<>>

PrepareFail(message) == Fail("Failed to prepare prompt: ", message)

\* PrepareValidate without the check of GITHUB_TOKEN
PrepareValidate_TokenNotChecked ==
    /\ stage = "prepare-prompt" /\ pc = "validate"
    /\ LET promptTemplate == env.PROMPT_TEMPLATE
           prNumber == parseIntNoRadix(IF Truthy(env.PR_NUMBER) THEN env.PR_NUMBER ELSE <<>>)
           githubToken == env.GITHUB_TOKEN
           repository == IF Truthy(env.REPOSITORY) THEN env.REPOSITORY ELSE <<>>
           parts == split(repository, "/")
           owner == parts[1]
           repo == IF Len(parts) >= 2 THEN parts[2] ELSE Undefined
           baseBranch == IF Truthy(env.BASE_BRANCH) THEN env.BASE_BRANCH ELSE <<>>
           locals == [promptTemplate |-> promptTemplate, prNumber |-> prNumber.val,
                      owner |-> owner, repo |-> repo, baseBranch |-> baseBranch]
       IN  IF ~Truthy(promptTemplate)
           THEN /\ PrepareFail(<<"PROMPT_TEMPLATE environment variable is required">>)
                /\ Read({"PROMPT_TEMPLATE"})
                /\ UNCHANGED <<mem, calls>>
           ELSE IF isNaN(prNumber) \/ prNumber.val = 0
           THEN /\ PrepareFail(<<"PR_NUMBER environment variable is required and must be a number">>)
                /\ Read({"PROMPT_TEMPLATE", "PR_NUMBER"})
                /\ UNCHANGED <<mem, calls>>
           ELSE IF ~Truthy(repository)
           THEN /\ PrepareFail(<<"REPOSITORY environment variable is required">>)
                /\ Read({"PROMPT_TEMPLATE", "PR_NUMBER", "GITHUB_TOKEN", "REPOSITORY"})
                /\ UNCHANGED <<mem, calls>>
           ELSE IF ~Truthy(owner) \/ ~Truthy(repo)
           THEN /\ PrepareFail(<<"Invalid REPOSITORY format: ">> \o repository
                                  \o <<". Expected 'owner/repo'">>)
                /\ Read({"PROMPT_TEMPLATE", "PR_NUMBER", "GITHUB_TOKEN", "REPOSITORY"})
                /\ UNCHANGED <<mem, calls>>
           ELSE /\ Read(PrepareEnvNames)
                /\ mem' = locals
                /\ UNCHANGED <<failure, exitCode>>
                /\ IF ~Truthy(baseBranch)
                   THEN /\ calls' = Append(calls, ReposGet(owner, repo))
                        /\ pc' = "repos.get"
                   ELSE /\ calls' = Append(calls, GraphqlQuery(owner, repo, prNumber.val))
                        /\ pc' = "graphql"
    /\ UNCHANGED <<stage, env, log, outputs>>

\* main, lines 230-266: the inputs are validated and the base branch is taken
\* from BASE_BRANCH or asked of the repository
PrepareValidate ==
    /\ stage = "prepare-prompt" /\ pc = "validate"
    /\ LET promptTemplate == env.PROMPT_TEMPLATE
           prNumber == parseIntNoRadix(IF Truthy(env.PR_NUMBER) THEN env.PR_NUMBER ELSE <<>>)
           githubToken == env.GITHUB_TOKEN
           repository == IF Truthy(env.REPOSITORY) THEN env.REPOSITORY ELSE <<>>
           parts == split(repository, "/")
           owner == parts[1]
           repo == IF Len(parts) >= 2 THEN parts[2] ELSE Undefined
           baseBranch == IF Truthy(env.BASE_BRANCH) THEN env.BASE_BRANCH ELSE <<>>
           locals == [promptTemplate |-> promptTemplate, prNumber |-> prNumber.val,
                      owner |-> owner, repo |-> repo, baseBranch |-> baseBranch]
       IN  IF ~Truthy(promptTemplate)
           THEN /\ PrepareFail(<<"PROMPT_TEMPLATE environment variable is required">>)
                /\ Read({"PROMPT_TEMPLATE"})
                /\ UNCHANGED <<mem, calls>>
           ELSE IF isNaN(prNumber) \/ prNumber.val = 0
           THEN /\ PrepareFail(<<"PR_NUMBER environment variable is required and must be a number">>)
                /\ Read({"PROMPT_TEMPLATE", "PR_NUMBER"})
                /\ UNCHANGED <<mem, calls>>
           ELSE IF ~Truthy(githubToken)
           THEN /\ PrepareFail(<<"GITHUB_TOKEN environment variable is required">>)
                /\ Read({"PROMPT_TEMPLATE", "PR_NUMBER", "GITHUB_TOKEN"})
                /\ UNCHANGED <<mem, calls>>
           ELSE IF ~Truthy(repository)
           THEN /\ PrepareFail(<<"REPOSITORY environment variable is required">>)
                /\ Read({"PROMPT_TEMPLATE", "PR_NUMBER", "GITHUB_TOKEN", "REPOSITORY"})
                /\ UNCHANGED <<mem, calls>>
           ELSE IF ~Truthy(owner) \/ ~Truthy(repo)
           THEN /\ PrepareFail(<<"Invalid REPOSITORY format: ">> \o repository
                                  \o <<". Expected 'owner/repo'">>)
                /\ Read({"PROMPT_TEMPLATE", "PR_NUMBER", "GITHUB_TOKEN", "REPOSITORY"})
                /\ UNCHANGED <<mem, calls>>
           ELSE /\ Read(PrepareEnvNames)
                /\ mem' = locals
                /\ UNCHANGED <<failure, exitCode>>
                /\ IF ~Truthy(baseBranch)
                   THEN /\ calls' = Append(calls, ReposGet(owner, repo))
                        /\ pc' = "repos.get"
                   ELSE /\ calls' = Append(calls, GraphqlQuery(owner, repo, prNumber.val))
                        /\ pc' = "graphql"
    /\ UNCHANGED <<stage, env, log, outputs>>

\* a failed lookup leaves the base branch empty and the run goes on
DefaultBranchSettles_FailureIgnored ==
    /\ stage = "prepare-prompt" /\ pc = "repos.get"
    /\ \E response \in ReposResponses :
        /\ mem' = [mem EXCEPT !.baseBranch = IF response.ok THEN response.default_branch
                                             ELSE <<>>]
        /\ calls' = Append(calls, GraphqlQuery(mem.owner, mem.repo, mem.prNumber))
        /\ pc' = "graphql"
        /\ UNCHANGED <<failure, exitCode>>
    /\ UNCHANGED <<stage, env, envRead, log, outputs>>

\* main, lines 264-270: repos.get settles; the PR data is asked for
DefaultBranchSettles ==
    /\ stage = "prepare-prompt" /\ pc = "repos.get"
    /\ \E response \in ReposResponses :
        IF ~response.ok
        THEN /\ PrepareFail(response.message)
             /\ UNCHANGED <<mem, calls>>
        ELSE /\ mem' = [mem EXCEPT !.baseBranch = response.default_branch]
             /\ calls' = Append(calls, GraphqlQuery(mem.owner, mem.repo, mem.prNumber))
             /\ pc' = "graphql"
             /\ UNCHANGED <<failure, exitCode>>
    /\ UNCHANGED <<stage, env, envRead, log, outputs>>

\* main, lines 270-285: the GraphQL query settles; fetchPRData goes on to the
\* git commands, the template is substituted and the outputs are set
PRDataSettles ==
    /\ stage = "prepare-prompt" /\ pc = "graphql"
    /\ \E response \in GraphqlResponses, git \in GitOutcomes :
        LET fetched == fetchPRData(response, git, mem.prNumber)
            prData == fetched.data
            finalPrompt == Text(substituteVariablesPrompt(Mark(mem.promptTemplate), prData,
                                                          env.REPOSITORY))
        IN  /\ calls' = calls \o fetched.git
            /\ mem' = mem @@ ("response" :> response)
                          @@ (IF fetched.ok THEN ("prData" :> prData) ELSE <<>>)
            /\ log' = log \o (IF \E i \in 1..Len(fetched.git) : ~fetched.git[i].ok
                              THEN << <<"Error fetching diff:">> \o git.message >> ELSE <<>>)
            /\ IF ~fetched.ok
               THEN /\ PrepareFail(fetched.error)
                    /\ UNCHANGED outputs
               ELSE /\ outputs' = outputs \o
                        << <<"final_prompt", finalPrompt>>,
                           <<"base_branch", mem.baseBranch>>,
                           <<"pr_number", String(prData.number)>>,
                           <<"pr_title", prData.title>>,
                           <<"pr_author", prData.author>>,
                           <<"pr_body", prData.body>> >>
                    /\ Return
    /\ UNCHANGED <<stage, env, envRead>>

PrepareNext ==
    \/ PrepareValidate
    \/ DefaultBranchSettles
    \/ PRDataSettles

SpecPrepare == PrepareInit /\ [][PrepareNext]_vars

(***************************************************************************)
(* Properties of the PR-number resolver                                    *)
(***************************************************************************)
PrNumberOutput(n) == << <<"pr_number", String(n)>> >>

IssueLookups == {i \in 1..Len(calls) : calls[i].op = "issues.get"}

\* PR_NUMBER is a non-blank string that parses as an integer
UsableExplicit ==
    /\ Truthy(env.PR_NUMBER)
    /\ Trim(env.PR_NUMBER) # <<>>
    /\ ~isNaN(parseInt(Trim(env.PR_NUMBER)))

\* GITHUB_EVENT_PULL_REQUEST_NUMBER is present and parses as an integer
UsablePullRequestNumber ==
    /\ Truthy(env.GITHUB_EVENT_PULL_REQUEST_NUMBER)
    /\ ~isNaN(parseInt(env.GITHUB_EVENT_PULL_REQUEST_NUMBER))

\* GITHUB_EVENT_ISSUE_NUMBER is present and parses as an integer
UsableIssueNumber ==
    /\ Truthy(env.GITHUB_EVENT_ISSUE_NUMBER)
    /\ ~isNaN(parseInt(env.GITHUB_EVENT_ISSUE_NUMBER))

\* GITHUB_REPOSITORY has the form owner/repo and GITHUB_TOKEN is not empty
ContextConfigured ==
    /\ Truthy(env.GITHUB_REPOSITORY)
    /\ parseRepository(env.GITHUB_REPOSITORY).ok
    /\ Truthy(env.GITHUB_TOKEN)

\* C1: with a non-blank PR_NUMBER that parses as an integer, the resolver never
\* issues a network call and never reads an event-context variable, whatever
\* their values, and once it has looked at PR_NUMBER it has ended with exit
\* code 0, no failure, and exactly that integer as its only output pr_number.
C1_ExplicitNumberUsedImmediately ==
    (stage = "extract-pr-number" /\ UsableExplicit) =>
        /\ NetworkCalls = {}
        /\ envRead \cap ContextEnvNames = {}
        /\ pc # "explicit" =>
            /\ pc = "done"
            /\ exitCode = 0
            /\ failure = NoFailure
            /\ outputs = PrNumberOutput(parseInt(Trim(env.PR_NUMBER)).val)

C1_Witness ==
    /\ stage = "extract-pr-number" /\ pc = "done"
    /\ env.PR_NUMBER = <<" ", "4", "2", " ">>
    /\ env.GITHUB_EVENT_PULL_REQUEST_NUMBER = <<"1", "7">>
    /\ env.GITHUB_EVENT_ISSUE_NUMBER = <<"9">>
    /\ env.GITHUB_REPOSITORY = Undefined
    /\ outputs = << <<"pr_number", <<"4", "2">> >> >>
    /\ exitCode = 0

\* C2 as stated: without a usable explicit number and with a pull-request
\* event number that parses as an integer, the run ends with that number as
\* its output and without an issue lookup.
C2_Original ==
    (stage = "extract-pr-number" /\ pc = "done" /\ ~UsableExplicit /\ UsablePullRequestNumber) =>
        /\ outputs = PrNumberOutput(parseInt(env.GITHUB_EVENT_PULL_REQUEST_NUMBER).val)
        /\ exitCode = 0
        /\ IssueLookups = {}

\* C2, amended: without a usable explicit number, with GITHUB_REPOSITORY of
\* the form owner/repo and a non-empty GITHUB_TOKEN, and with a pull-request
\* event number that parses as an integer, the run ends with that number as
\* its output and exit code 0; the issue lookup is never performed (in any
\* state), even if an issue number is set too.
C2_PullRequestEventNumberUsed ==
    (stage = "extract-pr-number" /\ ~UsableExplicit /\ UsablePullRequestNumber) =>
        /\ IssueLookups = {}
        /\ (pc = "done" /\ ContextConfigured) =>
            /\ outputs = PrNumberOutput(parseInt(env.GITHUB_EVENT_PULL_REQUEST_NUMBER).val)
            /\ exitCode = 0
            /\ failure = NoFailure

C2_Witness ==
    /\ stage = "extract-pr-number" /\ pc = "done"
    /\ ~UsableExplicit
    /\ env.GITHUB_EVENT_PULL_REQUEST_NUMBER = <<"1", "7">>
    /\ env.GITHUB_EVENT_ISSUE_NUMBER = <<"9">>
    /\ ContextConfigured
    /\ outputs = << <<"pr_number", <<"1", "7">> >> >>
    /\ calls = <<>>

\* the issue of the lookup was fetched and has no pull_request field
FetchedIssueIsNoPullRequest ==
    /\ stage = "extract-pr-number" /\ pc = "done"
    /\ "response" \in DOMAIN mem
    /\ mem.response.ok /\ ~mem.response.pull_request

\* C3: when neither the explicit number nor the pull-request event gave a
\* number, the issue number N is present, and the fetched issue has no
\* pull_request field, no output is set and the run fails with exit code 1
\* and an error that says "Issue #N is not a pull request".
C3_IssueNotAPullRequest ==
    FetchedIssueIsNoPullRequest =>
        /\ ~UsableExplicit /\ ~UsablePullRequestNumber /\ UsableIssueNumber
        /\ outputs = <<>>
        /\ exitCode = 1
        /\ Contains(failure, <<"Issue #">> \o String(parseInt(env.GITHUB_EVENT_ISSUE_NUMBER).val)
                                \o <<" is not a pull request">>)

C3_Witness ==
    /\ FetchedIssueIsNoPullRequest
    /\ env.GITHUB_EVENT_ISSUE_NUMBER = <<"9">>
    /\ failure = <<"Failed to extract PR number: ", "Issue #", "9", " is not a pull request">>

\* the issue lookup was rejected (a network error)
IssueLookupFailed ==
    /\ stage = "extract-pr-number" /\ pc = "done"
    /\ "response" \in DOMAIN mem
    /\ ~mem.response.ok

\* C4 as stated: when the issue lookup fails with a network error, a warning
\* is logged and the run ends in the final failure, the error that names the
\* observed event type, not in another error.
C4_Original ==
    IssueLookupFailed =>
        /\ log # <<>>
        /\ exitCode = 1
        /\ Contains(failure, <<"Could not extract PR number from event context. Event name: ">>
                                \o mem.eventName)

(***************************************************************************)
(* Properties of template substitution                                     *)
(***************************************************************************)
Substituted == stage = "substitute" /\ pc \in {"returned", "done"}

Keys(variables) == {variables[i][1] : i \in 1..Len(variables)}

\* the positions of the template at which the placeholder of name starts
OccurrencesIn(s, name) == {i \in 1..Len(s) : MatchesAt(s, i, name)}

\* the five characters copied from positions i..i+4 of the template stand
\* next to each other in r
Survives(r, i) ==
    \E j \in 1..(Len(r) - PlaceholderLen + 1) :
        \A k \in 0..(PlaceholderLen - 1) : r[j + k].o = i + k

\* no character copied from positions i..i+4 of the template is in r
Gone(r, i) ==
    \A j \in 1..Len(r) : r[j].o \notin i..(i + PlaceholderLen - 1)

\* the result of the first n replacements of the call
AfterPass(n) ==
    IF mem.fn = "utils"
    THEN substituteVariables(mem.template, SubSeq(mem.variables, 1, n))
    ELSE IF n = Len(mem.variables) THEN mem.result
    ELSE ReplaceEach(mem.template, SubSeq(mem.variables, 1, n))

\* after is before with every occurrence of {{key}} replaced by value: each
\* occurrence, shifted by the replacements to its left, now holds value, and
\* nothing else changed length
EveryOccurrenceReplaced(before, after, key, value) ==
    LET occ == OccurrencesIn(before, key)
        delta == Len(value) - PlaceholderLen
        at(i) == i + delta * Cardinality({j \in occ : j < i})
    IN  /\ Len(after) = Len(before) + delta * Cardinality(occ)
        /\ \A i \in occ :
              /\ Text(SubSeq(after, at(i), at(i) + Len(value) - 1)) = value
              /\ \A k \in at(i)..(at(i) + Len(value) - 1) : after[k].o = 0

\* C5: after substitution no occurrence of {{NAME}} that the template had,
\* for a key NAME of the mapping, is left in the result (none of its
\* characters is), and the replacement for each key replaces every occurrence
\* of its placeholder in its input, not only the first, by the key's value.
\* Names are single words of letters and underscores.
C5_EveryOccurrenceReplaced ==
    Substituted =>
        /\ \A key \in Keys(mem.variables) :
              \A i \in OccurrencesIn(mem.template, key) : Gone(mem.result, i)
        /\ \A n \in 1..Len(mem.variables) :
              EveryOccurrenceReplaced(AfterPass(n - 1), AfterPass(n),
                                      mem.variables[n][1], mem.variables[n][2])

\* a template with the same mapped placeholder twice, both replaced
C5_Witness ==
    /\ Substituted
    /\ mem.fn = "utils"
    /\ Text(mem.template) = Placeholder("PR_BODY") \o <<"x">> \o Placeholder("PR_BODY")
    /\ mem.variables = << <<"PR_BODY", <<"$", "&">> >> >>
    /\ Text(mem.result) = <<"$", "&", "x", "$", "&">>

\* the characters that the result copied from the template are in template order
TemplateOrderKept(r) ==
    \A p, q \in 1..Len(r) : (p < q /\ r[p].o > 0 /\ r[q].o > 0) => r[p].o < r[q].o

\* C6: a placeholder {{NAME}} of the template whose NAME is not a key of the
\* mapping (for prepare-prompt: not a recognized name) is in the result
\* unchanged and in one piece, the text copied from the template keeps its
\* order around it, and the call returns without an error.
C6_UnknownPlaceholderKept ==
    Substituted =>
        /\ \A name \in TemplateNames \ Keys(mem.variables) :
              \A i \in OccurrencesIn(mem.template, name) :
                  /\ Survives(mem.result, i)
                  /\ \E j \in OccurrencesIn(mem.result, name) : mem.result[j].o = i
        /\ TemplateOrderKept(mem.result)
        /\ failure = NoFailure /\ exitCode = Running

C6_Witness ==
    /\ Substituted
    /\ mem.fn = "prepare-prompt"
    /\ Text(mem.template) = Placeholder("PR_DIFF") \o Placeholder("OTHER") \o <<"x">>
    /\ mem.data.diff = <<"x">>
    /\ Text(mem.result) = <<"x">> \o Placeholder("OTHER") \o <<"x">>

\* the template with each of its placeholders of a mapped key replaced by the
\* key's value, in one pass over the template: values are never looked into
RECURSIVE SubstituteOnce(_, _)
SubstituteOnce(t, variables) ==
    IF t = <<>> THEN <<>>
    ELSE IF \E n \in 1..Len(variables) : MatchesAt(t, 1, variables[n][1])
    THEN LET n == CHOOSE m \in 1..Len(variables) : MatchesAt(t, 1, variables[m][1])
         IN  variables[n][2]
                \o SubstituteOnce(SubSeq(t, PlaceholderLen + 1, Len(t)), variables)
    ELSE <<Head(t).c>> \o SubstituteOnce(Tail(t), variables)

\* C7 as stated: substitution is not recursive; the result is the template
\* with each placeholder of a key replaced by the key's value verbatim, so
\* placeholder text inside a value is in the result unchanged, for every key
\* order and pair of keys.
C7_Original ==
    Substituted => Text(mem.result) = SubstituteOnce(mem.template, mem.variables)

\* C8: substituting V into T and then an empty mapping into the result
\* returns that result unchanged; the placeholders of names outside V's keys
\* are where they were after the first substitution.
C8_EmptyMappingChangesNothing ==
    (stage = "substitute" /\ pc = "done") =>
        /\ mem.again = mem.result
        /\ \A name \in TemplateNames \ Keys(mem.variables) :
              OccurrencesIn(mem.again, name) = OccurrencesIn(mem.result, name)

C8_Witness ==
    /\ stage = "substitute" /\ pc = "done"
    /\ mem.fn = "utils"
    /\ Text(mem.template) = Placeholder("PR_DIFF") \o Placeholder("PR_BODY")
    /\ mem.variables = << <<"PR_DIFF", <<"x">> >> >>
    /\ Text(mem.again) = <<"x">> \o Placeholder("PR_BODY")

(***************************************************************************)
(* Properties of prepare-prompt                                            *)
(***************************************************************************)
GitCalls == {i \in 1..Len(calls) : calls[i].kind = "git"}

FailedGitCalls == {i \in GitCalls : ~calls[i].ok}

PrepareOutputNames ==
    {"final_prompt", "base_branch", "pr_number", "pr_title", "pr_author", "pr_body"}

\* the error messages with which the git commands of the model fail
GitMessages == {g.message : g \in {h \in GitOutcomes : ~(h.fetchOk /\ h.diffOk)}}

\* C9: if the git fetch of the base ref or the git diff failed, fetchPRData
\* has still returned a snapshot, whose diff is a non-empty string that
\* contains "Unable to fetch diff" and the error message, and the stage has
\* ended with its outputs set and exit code 0.
C9_DiffFailureDegrades ==
    (stage = "prepare-prompt" /\ FailedGitCalls # {}) =>
        /\ pc = "done"
        /\ "prData" \in DOMAIN mem
        /\ mem.prData.diff # <<>>
        /\ Contains(mem.prData.diff, <<"Unable to fetch diff">>)
        /\ \E msg \in GitMessages :
              /\ log = << <<"Error fetching diff:">> \o msg >>
              /\ Contains(mem.prData.diff, msg)
        /\ OutputNames = PrepareOutputNames
        /\ exitCode = 0
        /\ failure = NoFailure

\* the fetch of the base ref failed; the prompt carries the placeholder text
C9_Witness ==
    /\ stage = "prepare-prompt" /\ pc = "done"
    /\ Len(calls) = 2 /\ calls[2].op = "fetch" /\ ~calls[2].ok
    /\ env.PROMPT_TEMPLATE =
          <<"Review ">> \o Placeholder("PR_NUMBER") \o <<":">> \o Placeholder("PR_DIFF")
    /\ OutputValue("final_prompt") =
          <<"Review ", "4", "2", ":", "[", "Unable to fetch diff", ": ",
            "Command failed: git fetch", "]">>
    /\ exitCode = 0

\* the GraphQL query answered with a null pull request
NullPullRequest ==
    /\ stage = "prepare-prompt" /\ pc = "done"
    /\ "response" \in DOMAIN mem
    /\ mem.response.ok /\ ~mem.response.pullRequest

\* C10: if the GraphQL query returns a null pull request, the stage fails
\* with "PR #N not found" (N the PR number asked for), no git command has
\* been run, the exit code is 1 and no output is set.
C10_NullPullRequestNotFound ==
    NullPullRequest =>
        /\ Contains(failure, <<"PR #">> \o String(mem.prNumber) \o <<" not found">>)
        /\ calls[Len(calls)] = GraphqlQuery(mem.owner, mem.repo, mem.prNumber)
        /\ GitCalls = {}
        /\ exitCode = 1
        /\ outputs = <<>>

C10_Witness ==
    /\ NullPullRequest
    /\ env.PR_NUMBER = <<"4", "2">>
    /\ failure = <<"Failed to prepare prompt: ", "PR #", "4", "2", " not found">>
    /\ Len(calls) = 2 /\ calls[1].op = "repos.get"

\* the string starts, after white space and a sign, with a decimal digit
StartsWithNumber(s) ==
    LET t == TrimStart(s)
        u == IF t # <<>> /\ Head(t) \in {"-", "+"} THEN Tail(t) ELSE t
    IN  u # <<>> /\ IsDigit(Head(u))

TemplateMissing == ~Truthy(env.PROMPT_TEMPLATE)

\* PR_NUMBER is missing, empty, not a number, or zero
NumberMissing ==
    \/ ~Truthy(env.PR_NUMBER)
    \/ ~StartsWithNumber(env.PR_NUMBER)
    \/ ((\A i \in 1..Len(env.PR_NUMBER) : IsDigit(env.PR_NUMBER[i])) /\ DigitsValue(env.PR_NUMBER) = 0)

TokenMissing == ~Truthy(env.GITHUB_TOKEN)

\* REPOSITORY is missing or not of the form owner/repo
RepositoryMalformed ==
    ~Truthy(env.REPOSITORY) \/ ~parseRepository(env.REPOSITORY).ok

\* the name of the first input, in the order of the checks, that is missing
\* or malformed
FirstInvalidInput ==
    IF TemplateMissing THEN "PROMPT_TEMPLATE"
    ELSE IF NumberMissing THEN "PR_NUMBER"
    ELSE IF TokenMissing THEN "GITHUB_TOKEN"
    ELSE "REPOSITORY"

\* the error message names the variable
ErrorNames(message, name) ==
    \/ message = <<"Failed to prepare prompt: ", name \o " environment variable is required">>
    \/ /\ name = "PR_NUMBER"
       /\ message = <<"Failed to prepare prompt: ",
                      "PR_NUMBER environment variable is required and must be a number">>
    \/ /\ name = "REPOSITORY"
       /\ Len(message) >= 2 /\ message[2] = "Invalid REPOSITORY format: "

PositiveInteger(s) ==
    /\ Truthy(s)
    /\ \A i \in 1..Len(s) : IsDigit(s[i])
    /\ DigitsValue(s) > 0

GraphqlQueries == {i \in 1..Len(calls) : calls[i].op = "graphql"}

\* C12 as stated: for every PR_NUMBER that is zero, negative, empty or does
\* not denote a positive integer, the stage fails before fetching PR data:
\* no request is issued, and no GraphQL query ever carries a non-positive
\* number.
C12_Original ==
    (stage = "prepare-prompt" /\ ~PositiveInteger(env.PR_NUMBER)) =>
        /\ calls = <<>>
        /\ pc # "validate" => (pc = "done" /\ exitCode = 1)
        /\ \A i \in GraphqlQueries : calls[i].args[3][1] # "-"

(***************************************************************************)
(* Prompt preparation with the plan: the variant of prepare-prompt that    *)
(* embeds an optional plan (PLAN) in the prompt it emits                   *)
(***************************************************************************)
PlanValues == {Undefined, <<>>, <<" ">>, <<"step 1">>, <<" ", "step 1", "\n">>}

PlanHeader == <<"Based on this plan:", "\n">>

PlanFooter == <<"\n", "\n">>

\* a plan is embedded whether blank or not
embedPlan_BlankEmbedded(prompt, plan) ==
    PlanHeader \o (IF plan = Undefined THEN <<>> ELSE plan) \o PlanFooter \o prompt

\* the prompt, prefixed with the plan block if the plan is present and not blank
embedPlan(prompt, plan) ==
    IF Truthy(plan) /\ Trim(plan) # <<>>
    THEN PlanHeader \o plan \o PlanFooter \o prompt
    ELSE prompt

PreparePlanInit ==
    /\ stage = "prepare-prompt"
    /\ pc = "validate"
    /\ \E template \in PromptTemplateValues, number \in PrepareNumberValues,
          token \in TokenValues, repository \in RepositoryValues,
          baseBranch \in BaseBranchValues, plan \in PlanValues :
        env = [PROMPT_TEMPLATE |-> template,
               PR_NUMBER |-> number,
               GITHUB_TOKEN |-> token,
               REPOSITORY |-> repository,
               BASE_BRANCH |-> baseBranch,
               PLAN |-> plan]
    /\ envRead = {}
    /\ calls = <<>>
    /\ log = <<>>
    /\ outputs = <<>>
    /\ failure = NoFailure
    /\ exitCode = Running
    /\ mem = <<>>

\* PRDataSettles, with the plan embedded in the prompt that is emitted
PRDataSettlesWithPlan ==
    /\ stage = "prepare-prompt" /\ pc = "graphql"
    /\ \E response \in GraphqlResponses, git \in GitOutcomes :
        LET fetched == fetchPRData(response, git, mem.prNumber)
            prData == fetched.data
            substituted == Text(substituteVariablesPrompt(Mark(mem.promptTemplate), prData,
                                                          env.REPOSITORY))
            finalPrompt == embedPlan(substituted, env.PLAN)
        IN  /\ calls' = calls \o fetched.git
            /\ mem' = mem @@ ("response" :> response)
                          @@ (IF fetched.ok THEN ("prData" :> prData) ELSE <<>>)
            /\ log' = log \o (IF \E i \in 1..Len(fetched.git) : ~fetched.git[i].ok
                              THEN << <<"Error fetching diff:">> \o git.message >> ELSE <<>>)
            /\ IF ~fetched.ok
               THEN /\ PrepareFail(fetched.error)
                    /\ UNCHANGED <<outputs, envRead>>
               ELSE /\ Read({"PLAN"})
                    /\ outputs' = outputs \o
                        << <<"final_prompt", finalPrompt>>,
                           <<"base_branch", mem.baseBranch>>,
                           <<"pr_number", String(prData.number)>>,
                           <<"pr_title", prData.title>>,
                           <<"pr_author", prData.author>>,
                           <<"pr_body", prData.body>> >>
                    /\ Return
    /\ UNCHANGED <<stage, env>>

PreparePlanNext ==
    \/ PrepareValidate
    \/ DefaultBranchSettles
    \/ PRDataSettlesWithPlan

SpecPreparePlan == PreparePlanInit /\ [][PreparePlanNext]_vars

\* the prompt that substitution alone gives for the fetched snapshot
SubstitutedPrompt ==
    Text(substituteVariablesPrompt(Mark(env.PROMPT_TEMPLATE), mem.prData, env.REPOSITORY))

PromptEmitted ==
    /\ stage = "prepare-prompt" /\ pc = "done" /\ exitCode = 0
    /\ "PLAN" \in DOMAIN env

C13_WitnessBlank ==
    /\ PromptEmitted
    /\ env.PLAN = <<" ">>
    /\ OutputValue("final_prompt") = <<"Fix", " by ", "alice">>

(***************************************************************************)
(* create-branch.ts                                                        *)
(***************************************************************************)
\* BRANCH_PREFIX and PR_NUMBER, character by character
BranchPrefixValues ==
    {Undefined, <<>>, <<"a", "i", "/">>, <<"4", "2", "/">>, <<"p", "r", "-", "9", "-">>}

BranchNumberValues == {Undefined, <<>>, <<"4", "2">>, <<"7">>, <<"x">>}

\* Date.now(), in numbers small enough for the model's integers
Timestamps == {1742, 9000}

CheckoutFailures == {<<"Command failed: git checkout">>}

GitCheckout(branchName, startPoint, ok) ==
    [kind |-> "git", op |-> "checkout",
     args |-> <<"-b", branchName>> \o startPoint, ok |-> ok]

BranchInit ==
    /\ stage = "create-branch"
    /\ pc = "validate"
    /\ \E baseBranch \in {Undefined, <<>>, <<"main">>}, prefix \in BranchPrefixValues,
          number \in BranchNumberValues :
        env = [BASE_BRANCH |-> baseBranch, BRANCH_PREFIX |-> prefix, PR_NUMBER |-> number]
    /\ envRead = {}
    /\ calls = <<>>
    /\ log = <<>>
    /\ outputs = <<>>
    /\ failure = NoFailure
    /\ exitCode = Running
    /\ mem = <<>>

BranchFail(message) == Fail("Failed to create branch: ", message)

\* the branch name is built without the "-" before the timestamp
BranchValidate_NoSeparator ==
    /\ stage = "create-branch" /\ pc = "validate"
    /\ Read({"BASE_BRANCH", "BRANCH_PREFIX", "PR_NUMBER"})
    /\ IF ~Truthy(env.BASE_BRANCH)
       THEN /\ BranchFail(<<"BASE_BRANCH environment variable is required">>)
            /\ UNCHANGED mem
       ELSE IF ~Truthy(env.PR_NUMBER)
       THEN /\ BranchFail(<<"PR_NUMBER environment variable is required">>)
            /\ UNCHANGED mem
       ELSE \E timestamp \in Timestamps :
            LET branchPrefix == IF Truthy(env.BRANCH_PREFIX) THEN env.BRANCH_PREFIX
                                ELSE <<"a", "i", "/">>
            IN  /\ mem' = [baseBranch |-> env.BASE_BRANCH,
                           branchPrefix |-> branchPrefix,
                           prNumber |-> env.PR_NUMBER,
                           timestamp |-> timestamp,
                           branchName |-> branchPrefix \o <<"p", "r", "-">> \o env.PR_NUMBER
                                            \o String(timestamp)]
                /\ pc' = "fetch"
                /\ UNCHANGED <<failure, exitCode>>
    /\ UNCHANGED <<stage, env, calls, log, outputs>>

\* lines 12-25: the inputs and the branch name
BranchValidate ==
    /\ stage = "create-branch" /\ pc = "validate"
    /\ Read({"BASE_BRANCH", "BRANCH_PREFIX", "PR_NUMBER"})
    /\ IF ~Truthy(env.BASE_BRANCH)
       THEN /\ BranchFail(<<"BASE_BRANCH environment variable is required">>)
            /\ UNCHANGED mem
       ELSE IF ~Truthy(env.PR_NUMBER)
       THEN /\ BranchFail(<<"PR_NUMBER environment variable is required">>)
            /\ UNCHANGED mem
       ELSE \E timestamp \in Timestamps :
            LET branchPrefix == IF Truthy(env.BRANCH_PREFIX) THEN env.BRANCH_PREFIX
                                ELSE <<"a", "i", "/">>
            IN  /\ mem' = [baseBranch |-> env.BASE_BRANCH,
                           branchPrefix |-> branchPrefix,
                           prNumber |-> env.PR_NUMBER,
                           timestamp |-> timestamp,
                           branchName |-> branchPrefix \o <<"p", "r", "-">> \o env.PR_NUMBER
                                            \o <<"-">> \o String(timestamp)]
                /\ pc' = "fetch"
                /\ UNCHANGED <<failure, exitCode>>
    /\ UNCHANGED <<stage, env, calls, log, outputs>>

\* a failed fetch is tried a second time
BranchFetch_Retry ==
    /\ stage = "create-branch" /\ pc = "fetch"
    /\ \E ok \in BOOLEAN, again \in BOOLEAN :
        /\ calls' = calls \o <<GitFetch(mem.baseBranch, ok)>>
                          \o (IF ok THEN <<>> ELSE <<GitFetch(mem.baseBranch, again)>>)
        /\ log' = IF ok THEN log
                  ELSE Append(log, <<"Failed to fetch origin/">> \o mem.baseBranch)
    /\ pc' = "checkout"
    /\ UNCHANGED <<stage, env, envRead, outputs, failure, exitCode, mem>>

\* lines 27-36: git fetch origin <base>; a failure is only a warning
BranchFetch ==
    /\ stage = "create-branch" /\ pc = "fetch"
    /\ \E ok \in BOOLEAN :
        /\ calls' = Append(calls, GitFetch(mem.baseBranch, ok))
        /\ log' = IF ok THEN log
                  ELSE Append(log, <<"Failed to fetch origin/">> \o mem.baseBranch)
    /\ pc' = "checkout"
    /\ UNCHANGED <<stage, env, envRead, outputs, failure, exitCode, mem>>

\* lines 53-54
BranchCreated ==
    /\ log' = Append(log, <<"Created branch: ">> \o mem.branchName)
    /\ outputs' = setOutput(outputs, "branch_name", mem.branchName)
    /\ Return

\* a failed checkout from origin/<base> fails the stage at once
BranchCheckout_NoFallback ==
    /\ stage = "create-branch" /\ pc = "checkout"
    /\ \E ok \in BOOLEAN, message \in CheckoutFailures :
        /\ calls' = Append(calls, GitCheckout(mem.branchName,
                                              << <<"origin/">> \o mem.baseBranch >>, ok))
        /\ IF ok
           THEN BranchCreated
           ELSE /\ BranchFail(message)
                /\ UNCHANGED <<log, outputs>>
    /\ UNCHANGED <<stage, env, envRead, mem>>

\* lines 38-47 and 53-54: git checkout -b <name> origin/<base>
BranchCheckout ==
    /\ stage = "create-branch" /\ pc = "checkout"
    /\ \E ok \in BOOLEAN, message \in CheckoutFailures :
        /\ calls' = Append(calls, GitCheckout(mem.branchName,
                                              << <<"origin/">> \o mem.baseBranch >>, ok))
        /\ IF ok
           THEN BranchCreated
           ELSE /\ log' = Append(log, <<"Could not checkout from origin/">> \o mem.baseBranch
                                        \o <<", trying current branch: ">> \o message)
                /\ pc' = "fallback"
                /\ UNCHANGED <<outputs, failure, exitCode>>
    /\ UNCHANGED <<stage, env, envRead, mem>>

\* lines 48-59: git checkout -b <name>, from the current checkout state
BranchFallback ==
    /\ stage = "create-branch" /\ pc = "fallback"
    /\ \E ok \in BOOLEAN, message \in CheckoutFailures :
        /\ calls' = Append(calls, GitCheckout(mem.branchName, <<>>, ok))
        /\ IF ok
           THEN BranchCreated
           ELSE /\ BranchFail(message)
                /\ UNCHANGED <<log, outputs>>
    /\ UNCHANGED <<stage, env, envRead, mem>>

BranchNext ==
    \/ BranchValidate
    \/ BranchFetch
    \/ BranchCheckout
    \/ BranchFallback

SpecBranch == BranchInit /\ [][BranchNext]_vars

(***************************************************************************)
(* Properties of branch creation                                           *)
(***************************************************************************)
PrimaryCheckouts == {i \in 1..Len(calls) : calls[i].op = "checkout" /\ Len(calls[i].args) = 3}

FallbackCheckouts == {i \in 1..Len(calls) : calls[i].op = "checkout" /\ Len(calls[i].args) = 2}

BranchInputsGiven ==
    /\ stage = "create-branch"
    /\ Truthy(env.BASE_BRANCH) /\ Truthy(env.PR_NUMBER)

\* C14: with non-empty BASE_BRANCH and PR_NUMBER, the stage ends in failure
\* exactly when the checkout from origin/<base> and the fallback checkout both
\* failed (whatever the fetch did); a fallback checkout is only ever made
\* after a failed primary one; branch_name is output exactly when one of the
\* two checkouts succeeded.
C14_FailsIffBothCheckoutsFail ==
    BranchInputsGiven =>
        /\ \A j \in FallbackCheckouts : \E i \in PrimaryCheckouts : i < j /\ ~calls[i].ok
        /\ Cardinality(PrimaryCheckouts) <= 1 /\ Cardinality(FallbackCheckouts) <= 1
        /\ pc = "done" =>
             /\ exitCode = 1 <=> /\ \E i \in PrimaryCheckouts : ~calls[i].ok
                                 /\ \E j \in FallbackCheckouts : ~calls[j].ok
             /\ exitCode \in {0, 1}
        /\ "branch_name" \in OutputNames
              <=> \E i \in PrimaryCheckouts \cup FallbackCheckouts : calls[i].ok

C14_Witness ==
    /\ BranchInputsGiven /\ pc = "done" /\ exitCode = 0
    /\ Len(calls) = 3
    /\ calls[1].op = "fetch" /\ ~calls[1].ok
    /\ 2 \in PrimaryCheckouts /\ ~calls[2].ok
    /\ 3 \in FallbackCheckouts /\ calls[3].ok
    /\ "branch_name" \in OutputNames

C14_WitnessFailure ==
    /\ BranchInputsGiven /\ pc = "done" /\ exitCode = 1
    /\ Len(calls) = 3 /\ calls[1].ok /\ ~calls[2].ok /\ ~calls[3].ok
    /\ outputs = <<>>

Occurrences(s, t) ==
    Cardinality({i \in 1..(Len(s) - Len(t) + 1) : SubSeq(s, i, i + Len(t) - 1) = t})

AllDigits(s) == Len(s) > 0 /\ \A i \in 1..Len(s) : IsDigit(s[i])

\* the text has, from position i, "pr-", then the digits up to position j - 1, then "-"
PrSegmentAt(s, i, j) ==
    /\ i + 3 < j /\ j <= Len(s)
    /\ SubSeq(s, i, i + 2) = <<"p", "r", "-">>
    /\ AllDigits(SubSeq(s, i + 3, j - 1))
    /\ s[j] = "-"

HasPrSegment(s) == \E i \in 1..Len(s), j \in 1..Len(s) : PrSegmentAt(s, i, j)

\* the number in the first pr-{N}- segment of the text
FirstPrSegment(s) ==
    LET i == CHOOSE a \in 1..Len(s) :
                /\ \E j \in 1..Len(s) : PrSegmentAt(s, a, j)
                /\ \A b \in 1..(a - 1) : \A j \in 1..Len(s) : ~PrSegmentAt(s, b, j)
        j == CHOOSE b \in 1..Len(s) : PrSegmentAt(s, i, b)
    IN  SubSeq(s, i + 3, j - 1)

BranchNamed == stage = "create-branch" /\ "branchName" \in DOMAIN mem

EffectivePrefix == IF Truthy(env.BRANCH_PREFIX) THEN env.BRANCH_PREFIX ELSE <<"a", "i", "/">>

BranchNameExact ==
    /\ mem.branchName = EffectivePrefix \o <<"p", "r", "-">> \o env.PR_NUMBER \o <<"-">>
                           \o String(mem.timestamp)
    /\ "branch_name" \in OutputNames => OutputValue("branch_name") = mem.branchName

\* C15, as stated: the name is prefix + "pr-" + PR number + "-" + timestamp,
\* holds the prefix and the PR number exactly once each, and its pr-{N}-
\* segment gives back the PR number, for every accepted prefix and PR_NUMBER.
C15_Original ==
    BranchNamed =>
        /\ BranchNameExact
        /\ Occurrences(mem.branchName, EffectivePrefix) = 1
        /\ Occurrences(mem.branchName, env.PR_NUMBER) = 1
        /\ HasPrSegment(mem.branchName)
        /\ FirstPrSegment(mem.branchName) = env.PR_NUMBER

\* C15, amended: the name is exactly prefix + "pr-" + PR number + "-" +
\* timestamp (prefix defaulting to "ai/"), so it begins with the prefix; and
\* when PR_NUMBER is a decimal numeral and the prefix holds no pr-{digits}-
\* segment of its own, the first pr-{N}- segment of the name gives back the
\* PR number.
C15_BranchNameRoundTrip ==
    BranchNamed =>
        /\ BranchNameExact
        /\ SubSeq(mem.branchName, 1, Len(EffectivePrefix)) = EffectivePrefix
        /\ (AllDigits(env.PR_NUMBER) /\ ~HasPrSegment(EffectivePrefix)) =>
              /\ HasPrSegment(mem.branchName)
              /\ FirstPrSegment(mem.branchName) = env.PR_NUMBER

C15_Witness ==
    /\ BranchNamed /\ pc = "done" /\ exitCode = 0
    /\ env.BRANCH_PREFIX = Undefined /\ env.PR_NUMBER = <<"4", "2">>
    /\ OutputValue("branch_name")
          = <<"a", "i", "/", "p", "r", "-", "4", "2", "-", "1", "7", "4", "2">>
    /\ FirstPrSegment(mem.branchName) = <<"4", "2">>
    /\ Occurrences(mem.branchName, env.PR_NUMBER) = 2

(***************************************************************************)
(* run-llm.ts                                                              *)
(*                                                                         *)
(* A string is a sequence of tokens; an argument vector is a sequence of   *)
(* strings.  The environment handed to the CLI is process.env with the     *)
(* credentials and cloud flags of the configuration written over it, which *)
(* are the values process.env already holds, so it is not carried here.    *)
(***************************************************************************)
NonSpace(s) == SelectSeq(s, LAMBDA c : ~IsSpace(c))

\* String.prototype.split(/\s+/).filter(Boolean): the runs of non-space tokens
RECURSIVE SplitWhitespace(_)
SplitWhitespace(s) ==
    LET t == TrimStart(s)
        n == IF \E i \in 1..Len(t) : IsSpace(t[i])
             THEN (CHOOSE i \in 1..Len(t) :
                      IsSpace(t[i]) /\ \A j \in 1..(i - 1) : ~IsSpace(t[j])) - 1
             ELSE Len(t)
    IN  IF t = <<>> THEN <<>>
        ELSE <<SubSeq(t, 1, n)>> \o SplitWhitespace(SubSeq(t, n + 1, Len(t)))

\* a JSON string literal: quote, word, quote
IsJSONString(t) == Len(t) = 3 /\ t[1] = "\"" /\ t[3] = "\"" /\ t[2] # "\""

IsJSONScalar(t) ==
    \/ IsJSONString(t)
    \/ t \in {<<"null">>, <<"true">>, <<"false">>, <<"{", "}">>}
    \/ (Len(t) = 1 /\ IsDigit(t[1]))

\* a JSON array of string literals
IsJSONArray(t) ==
    /\ Len(t) >= 2 /\ t[1] = "[" /\ t[Len(t)] = "]"
    /\ LET inner == SubSeq(t, 2, Len(t) - 1)
       IN  \/ inner = <<>>
           \/ /\ (Len(inner) + 1) % 4 = 0
              /\ \A k \in 1..((Len(inner) + 1) \div 4) :
                    /\ IsJSONString(SubSeq(inner, 4 * k - 3, 4 * k - 1))
                    /\ 4 * k <= Len(inner) => inner[4 * k] = ","

JSONArrayElements(t) ==
    LET inner == SubSeq(t, 2, Len(t) - 1)
    IN  [k \in 1..((Len(inner) + 1) \div 4) |-> <<inner[4 * k - 2]>>]

\* valid JSON that is not an array is split at whitespace like any other text
extraArgs_NonArraySplit(args) ==
    IF ~Truthy(args) THEN <<>>
    ELSE LET t == NonSpace(args)
         IN  IF IsJSONArray(t) THEN JSONArrayElements(t)
             ELSE SplitWhitespace(args)

\* lines 89-101 and 186-197: the extra arguments an args string adds
extraArgs(args) ==
    IF ~Truthy(args) THEN <<>>
    ELSE LET t == NonSpace(args)
         IN  IF IsJSONArray(t) THEN JSONArrayElements(t)
             ELSE IF IsJSONScalar(t) THEN <<>>
             ELSE SplitWhitespace(args)

\* what the subprocesses and the file system do during one call of runLLM
Worlds ==
    [versionOk : BOOLEAN, writeOk : BOOLEAN, execOk : BOOLEAN,
     stdout : {<<>>, <<"the plan">>, <<" ", "the plan", "\n">>},
     message : {<<"Command failed">>}]

CLI(op, args, ok) == [kind |-> "cli", op |-> op, args |-> args, ok |-> ok]

WriteFile(path, data, ok) ==
    [kind |-> "file", op |-> "writeFile", args |-> <<path, data>>, ok |-> ok]

Success(calls_) == [thrown |-> FALSE, success |-> TRUE, output |-> Undefined,
                    error |-> Undefined, calls |-> calls_]

SuccessOutput(output, calls_) == [thrown |-> FALSE, success |-> TRUE, output |-> output,
                                  error |-> Undefined, calls |-> calls_]

Failure(error, calls_) == [thrown |-> FALSE, success |-> FALSE, output |-> Undefined,
                           error |-> error, calls |-> calls_]

Thrown(error, calls_) == [thrown |-> TRUE, success |-> FALSE, output |-> Undefined,
                          error |-> error, calls |-> calls_]

ClaudeCommand(config) ==
    << <<"-p">>, config.prompt >>
    \o (IF Truthy(config.model) THEN << <<"--model">>, config.model >> ELSE <<>>)
    \o (IF config.permissionMode # Undefined
        THEN << <<"--permission-mode">>, config.permissionMode >> ELSE <<>>)
    \o << <<"--tools">>, <<"default">>, <<"--no-session-persistence">> >>
    \o extraArgs(config.claudeArgs)

\* the prompt is run without looking for a credential
runClaudeCLI_NoCredentialCheck(config, world) ==
    LET version == CLI("claude", << <<"--version">> >>, world.versionOk)
        exec == CLI("claude", ClaudeCommand(config), world.execOk)
    IN  IF ~world.versionOk
        THEN Failure(<<"Claude CLI not found. Please install with: npm install -g @anthropic-ai/claude-code">>,
                     <<version>>)
        ELSE IF ~world.execOk
        THEN Failure(world.message, <<version, exec>>)
        ELSE IF config.captureOutput
        THEN SuccessOutput(Trim(world.stdout), <<version, exec>>)
        ELSE Success(<<version, exec>>)

\* lines 54-155
runClaudeCLI(config, world) ==
    LET version == CLI("claude", << <<"--version">> >>, world.versionOk)
        exec == CLI("claude", ClaudeCommand(config), world.execOk)
        apiKey == IF Truthy(config.anthropicApiKey) THEN config.anthropicApiKey
                  ELSE config.claudeCodeOAuthToken
    IN  IF ~world.versionOk
        THEN Failure(<<"Claude CLI not found. Please install with: npm install -g @anthropic-ai/claude-code">>,
                     <<version>>)
        ELSE IF ~Truthy(apiKey)
        THEN Failure(<<"ANTHROPIC_API_KEY or CLAUDE_CODE_OAUTH_TOKEN is required">>,
                     <<version>>)
        ELSE IF ~world.execOk
        THEN Failure(world.message, <<version, exec>>)
        ELSE IF config.captureOutput
        THEN SuccessOutput(Trim(world.stdout), <<version, exec>>)
        ELSE Success(<<version, exec>>)

PromptFile == <<"/tmp/codex-prompt.txt">>

CodexCommand(config) == << <<"exec">> >> \o extraArgs(config.codexArgs) \o <<PromptFile>>

CodexActionError ==
    <<"Codex implementation phase should use codex-action directly in the workflow, not this script">>

\* the mode is not looked at: without capture the codex CLI is run all the same
runCodex_ModeNotChecked(config, world) ==
    LET version == CLI("codex", << <<"--version">> >>, world.versionOk)
        write == WriteFile(PromptFile, config.prompt, world.writeOk)
        exec == CLI("codex", CodexCommand(config), world.execOk)
    IN  IF ~Truthy(config.openaiApiKey)
        THEN Failure(<<"OPENAI_API_KEY is required for Codex">>, <<>>)
        ELSE IF ~world.versionOk
        THEN Failure(<<"Codex CLI not found. Codex plan phase requires codex CLI to be installed.">>,
                     <<version>>)
        ELSE IF ~world.writeOk
        THEN Failure(world.message, <<version, write>>)
        ELSE IF ~world.execOk
        THEN Failure(world.message, <<version, write, exec>>)
        ELSE SuccessOutput(Trim(world.stdout), <<version, write, exec>>)

\* the error of a failed codex execution leaves the function
runCodex_ExecErrorEscapes(config, world) ==
    LET version == CLI("codex", << <<"--version">> >>, world.versionOk)
        write == WriteFile(PromptFile, config.prompt, world.writeOk)
        exec == CLI("codex", CodexCommand(config), world.execOk)
    IN  IF ~Truthy(config.openaiApiKey)
        THEN Failure(<<"OPENAI_API_KEY is required for Codex">>, <<>>)
        ELSE IF ~config.captureOutput
        THEN Failure(CodexActionError, <<>>)
        ELSE IF ~world.versionOk
        THEN Failure(<<"Codex CLI not found. Codex plan phase requires codex CLI to be installed.">>,
                     <<version>>)
        ELSE IF ~world.writeOk
        THEN Failure(world.message, <<version, write>>)
        ELSE IF ~world.execOk
        THEN Thrown(world.message, <<version, write, exec>>)
        ELSE SuccessOutput(Trim(world.stdout), <<version, write, exec>>)

\* lines 162-230
runCodex(config, world) ==
    LET version == CLI("codex", << <<"--version">> >>, world.versionOk)
        write == WriteFile(PromptFile, config.prompt, world.writeOk)
        exec == CLI("codex", CodexCommand(config), world.execOk)
    IN  IF ~Truthy(config.openaiApiKey)
        THEN Failure(<<"OPENAI_API_KEY is required for Codex">>, <<>>)
        ELSE IF ~config.captureOutput
        THEN Failure(CodexActionError, <<>>)
        ELSE IF ~world.versionOk
        THEN Failure(<<"Codex CLI not found. Codex plan phase requires codex CLI to be installed.">>,
                     <<version>>)
        ELSE IF ~world.writeOk
        THEN Failure(world.message, <<version, write>>)
        ELSE IF ~world.execOk
        THEN Failure(world.message, <<version, write, exec>>)
        ELSE SuccessOutput(Trim(world.stdout), <<version, write, exec>>)

\* every provider that is not "codex" is run as claude
runLLM_DefaultsToClaude(config, world) ==
    IF config.provider = <<"codex">> THEN runCodex(config, world)
    ELSE runClaudeCLI(config, world)

\* lines 235-246
runLLM(config, world) ==
    IF config.provider = <<"claude">> THEN runClaudeCLI(config, world)
    ELSE IF config.provider = <<"codex">> THEN runCodex(config, world)
    ELSE Failure(<<"Unknown provider: ">> \o config.provider, <<>>)

LLMEnvNames ==
    {"PROVIDER", "PROMPT", "PERMISSION_MODE", "CAPTURE_OUTPUT", "ANTHROPIC_API_KEY",
     "CLAUDE_CODE_OAUTH_TOKEN", "USE_BEDROCK", "USE_VERTEX", "USE_FOUNDRY", "CLAUDE_ARGS",
     "MODEL", "OPENAI_API_KEY", "CODEX_ARGS"}

ProviderValues == {Undefined, <<>>, <<"claude">>, <<"codex">>, <<"gemini">>, <<"Claude">>}

KeyValues == {Undefined, <<>>, <<"sk-key">>}

ArgsValues ==
    {Undefined,
     <<"[", "\"", "--verbose", "\"", ",", " ", "\"", "--debug", "\"", "]">>,
     <<" ", "--max-turns", " ", "\t", "3", "\n">>,
     <<"{", "}">>,
     <<"null">>,
     <<" ">>}

\* CLAUDE_ARGS and CODEX_ARGS: at most one of them is given
ArgsPairs == {p \in ArgsValues \X ArgsValues : p[1] = Undefined \/ p[2] = Undefined}

LLMInit ==
    /\ stage = "run-llm"
    /\ pc = "start"
    /\ \E provider \in ProviderValues,
          prompt \in {Undefined, <<"Fix the bug">>},
          permissionMode \in {Undefined, <<"acceptEdits">>},
          captureOutput \in {Undefined, <<"true">>},
          anthropicApiKey \in KeyValues,
          oauthToken \in {Undefined, <<"oauth-token">>},
          cloud \in {"none", "USE_BEDROCK", "USE_VERTEX", "USE_FOUNDRY"},
          args \in ArgsPairs,
          model \in {Undefined, <<"opus">>},
          openaiApiKey \in KeyValues :
        env = [PROVIDER |-> provider,
               PROMPT |-> prompt,
               PERMISSION_MODE |-> permissionMode,
               CAPTURE_OUTPUT |-> captureOutput,
               ANTHROPIC_API_KEY |-> anthropicApiKey,
               CLAUDE_CODE_OAUTH_TOKEN |-> oauthToken,
               USE_BEDROCK |-> IF cloud = "USE_BEDROCK" THEN <<"true">> ELSE Undefined,
               USE_VERTEX |-> IF cloud = "USE_VERTEX" THEN <<"true">> ELSE Undefined,
               USE_FOUNDRY |-> IF cloud = "USE_FOUNDRY" THEN <<"true">> ELSE Undefined,
               CLAUDE_ARGS |-> args[1],
               MODEL |-> model,
               OPENAI_API_KEY |-> openaiApiKey,
               CODEX_ARGS |-> args[2]]
    /\ envRead = {}
    /\ calls = <<>>
    /\ log = <<>>
    /\ outputs = <<>>
    /\ failure = NoFailure
    /\ exitCode = Running
    /\ mem = <<>>

\* lines 250-277: the configuration is read from the environment
LLMConfigure ==
    /\ stage = "run-llm" /\ pc = "start"
    /\ IF ~Truthy(env.PROMPT)
       THEN /\ Read({"PROVIDER", "PROMPT"})
            /\ Fail("Failed to run LLM: ", <<"PROMPT environment variable is required">>)
            /\ UNCHANGED mem
       ELSE /\ Read(LLMEnvNames)
            /\ mem' = [config |->
                         [provider |-> IF Truthy(env.PROVIDER) THEN env.PROVIDER
                                       ELSE <<"claude">>,
                          prompt |-> env.PROMPT,
                          permissionMode |-> IF env.PERMISSION_MODE = <<"acceptEdits">>
                                             THEN <<"acceptEdits">> ELSE Undefined,
                          captureOutput |-> env.CAPTURE_OUTPUT = <<"true">>,
                          anthropicApiKey |-> env.ANTHROPIC_API_KEY,
                          claudeCodeOAuthToken |-> env.CLAUDE_CODE_OAUTH_TOKEN,
                          useBedrock |-> env.USE_BEDROCK = <<"true">>,
                          useVertex |-> env.USE_VERTEX = <<"true">>,
                          useFoundry |-> env.USE_FOUNDRY = <<"true">>,
                          claudeArgs |-> env.CLAUDE_ARGS,
                          model |-> env.MODEL,
                          openaiApiKey |-> env.OPENAI_API_KEY,
                          codexArgs |-> env.CODEX_ARGS]]
            /\ pc' = "runLLM"
            /\ UNCHANGED <<failure, exitCode>>
    /\ UNCHANGED <<stage, env, calls, log, outputs>>

\* line 279: the call of runLLM, with everything it runs; an exception that
\* left it would end in the catch of lines 306-315
LLMRun ==
    /\ stage = "run-llm" /\ pc = "runLLM"
    /\ \E world \in Worlds :
        LET result == runLLM(mem.config, world)
        IN  /\ calls' = calls \o result.calls
            /\ IF result.thrown
               THEN /\ Fail("Failed to run LLM: ", result.error)
                    /\ UNCHANGED mem
               ELSE /\ mem' = mem @@ ("result" :> [success |-> result.success,
                                                   output |-> result.output,
                                                   error |-> result.error])
                    /\ pc' = "report"
                    /\ UNCHANGED <<failure, exitCode>>
    /\ UNCHANGED <<stage, env, envRead, log, outputs>>

\* a failed result is logged, and the process ends normally
LLMReport_FailureExitsZero ==
    /\ stage = "run-llm" /\ pc = "report"
    /\ IF mem.result.success
       THEN /\ IF Truthy(mem.result.output)
               THEN /\ log' = Append(log, mem.result.output)
                    /\ outputs' = setOutput(outputs, "output", mem.result.output)
               ELSE /\ log' = Append(log, <<"LLM execution completed">>)
                    /\ UNCHANGED outputs
            /\ Return
       ELSE /\ log' = Append(log, <<"LLM execution failed: ">> \o mem.result.error)
            /\ Return
            /\ UNCHANGED outputs
    /\ UNCHANGED <<stage, env, envRead, calls, mem>>

\* lines 281-305: the result is reported
LLMReport ==
    /\ stage = "run-llm" /\ pc = "report"
    /\ IF mem.result.success
       THEN /\ IF Truthy(mem.result.output)
               THEN /\ log' = Append(log, mem.result.output)
                    /\ outputs' = setOutput(outputs, "output", mem.result.output)
               ELSE /\ log' = Append(log, <<"LLM execution completed">>)
                    /\ UNCHANGED outputs
            /\ Return
       ELSE /\ log' = Append(log, <<"LLM execution failed: ">> \o mem.result.error)
            /\ Fail("LLM execution failed: ", mem.result.error)
            /\ UNCHANGED outputs
    /\ UNCHANGED <<stage, env, envRead, calls, mem>>

LLMNext ==
    \/ LLMConfigure
    \/ LLMRun
    \/ LLMReport

SpecLLM == LLMInit /\ [][LLMNext]_vars

(***************************************************************************)
(* Properties of the LLM runner                                            *)
(***************************************************************************)
LLMConfigured == stage = "run-llm" /\ "config" \in DOMAIN mem

\* runLLM has returned or thrown
LLMCalled == LLMConfigured /\ pc # "runLLM"

LLMReturned == LLMCalled /\ "result" \in DOMAIN mem

Subprocesses == {i \in 1..Len(calls) : calls[i].kind = "cli"}

FileWrites == {i \in 1..Len(calls) : calls[i].kind = "file"}

\* C16: for a provider other than "claude" and "codex", runLLM returns (it
\* does not throw) the failure result whose error is "Unknown provider: "
\* followed by the provider, and no CLI subprocess is run and no file written.
C16_UnknownProviderFailureResult ==
    (LLMConfigured /\ mem.config.provider \notin {<<"claude">>, <<"codex">>}) =>
        /\ Subprocesses = {} /\ FileWrites = {}
        /\ LLMCalled =>
             /\ LLMReturned
             /\ mem.result = [success |-> FALSE, output |-> Undefined,
                              error |-> <<"Unknown provider: ">> \o mem.config.provider]

C16_Witness ==
    /\ LLMReturned /\ pc = "done" /\ exitCode = 1
    /\ env.PROVIDER = <<"gemini">>
    /\ mem.result.error = <<"Unknown provider: ", "gemini">>
    /\ failure = <<"LLM execution failed: ", "Unknown provider: ", "gemini">>
    /\ calls = <<>>

\* C17: runLLM never lets an exception out: whatever the configuration and
\* whatever the subprocesses and the file write do, it returns a result that
\* is either a success with no error, carrying an output only in capture
\* mode, or a failure with a defined error and no output.
C17_UniformResult ==
    LLMCalled =>
        /\ LLMReturned
        /\ failure = NoFailure \/ failure[1] = "LLM execution failed: "
        /\ IF mem.result.success
           THEN /\ mem.result.error = Undefined
                /\ mem.result.output # Undefined => mem.config.captureOutput
           ELSE /\ mem.result.error # Undefined
                /\ mem.result.output = Undefined

C17_Witness ==
    /\ LLMReturned /\ pc = "done" /\ exitCode = 1
    /\ mem.config.provider = <<"codex">>
    /\ Len(calls) = 3 /\ calls[3].op = "codex" /\ ~calls[3].ok
    /\ mem.result = [success |-> FALSE, output |-> Undefined, error |-> <<"Command failed">>]

C17_WitnessSuccess ==
    /\ LLMReturned /\ pc = "done" /\ exitCode = 0
    /\ mem.config.provider = <<"claude">> /\ ~mem.config.captureOutput
    /\ mem.result = [success |-> TRUE, output |-> Undefined, error |-> Undefined]

CodexImplementationMode ==
    LLMConfigured /\ mem.config.provider = <<"codex">> /\ ~mem.config.captureOutput

\* C18, as stated: for every configuration with provider "codex" and capture
\* disabled the runner fails with the error that names codex-action, and
\* neither the codex CLI is run nor the prompt file written.
C18_Original ==
    CodexImplementationMode =>
        /\ Subprocesses = {} /\ FileWrites = {}
        /\ LLMCalled =>
             /\ LLMReturned
             /\ ~mem.result.success
             /\ mem.result.error = CodexActionError

\* C18, amended: with provider "codex" and capture disabled the runner fails
\* without running the codex CLI or writing the prompt file; the error is the
\* one that names codex-action when the OpenAI API key is non-empty, and the
\* missing-key error otherwise.
C18_CodexImplementationRejected ==
    CodexImplementationMode =>
        /\ Subprocesses = {} /\ FileWrites = {}
        /\ LLMCalled =>
             /\ LLMReturned
             /\ ~mem.result.success
             /\ mem.result.error = IF Truthy(mem.config.openaiApiKey) THEN CodexActionError
                                   ELSE <<"OPENAI_API_KEY is required for Codex">>
             /\ pc = "done" => exitCode = 1

C18_Witness ==
    /\ CodexImplementationMode /\ pc = "done" /\ exitCode = 1
    /\ env.OPENAI_API_KEY = <<"sk-key">>
    /\ failure = <<"LLM execution failed: ">> \o CodexActionError
    /\ calls = <<>>

PromptSent ==
    \E i \in Subprocesses : calls[i].op = "claude" /\ calls[i].args[1] = <<"-p">>

CredentialSupplied ==
    Truthy(mem.config.anthropicApiKey) \/ Truthy(mem.config.claudeCodeOAuthToken)

C19_WitnessSent ==
    /\ LLMReturned /\ mem.config.provider = <<"claude">>
    /\ PromptSent
    /\ ~Truthy(mem.config.anthropicApiKey) /\ Truthy(mem.config.claudeCodeOAuthToken)

(***************************************************************************)
(* extract-plan-from-file.ts, lines 1-84: the plan extractor               *)
(*                                                                         *)
(* What a file holds is chosen when the script looks at it and is kept in  *)
(* the record of the call.  A line of the log is [stream, text].           *)
(***************************************************************************)
ExistsSync(path, exists) ==
    [kind |-> "file", op |-> "existsSync", args |-> <<path>>, ok |-> exists]

ReadFileSync(path, ok, content) ==
    [kind |-> "file", op |-> "readFileSync", args |-> <<path>>, ok |-> ok,
     content |-> content]

\* the content field of a message of the execution log
NoContent == [kind |-> "undefined", text |-> <<>>, parts |-> <<>>]

StringContent(text) == [kind |-> "string", text |-> text, parts |-> <<>>]

ArrayContent(parts) == [kind |-> "array", text |-> <<>>, parts |-> parts]

Message(type, content) == [isNull |-> FALSE, type |-> type, content |-> content]

\* the text of the execution file: not JSON, or the JSON value it denotes
NotJSON == [json |-> FALSE, array |-> FALSE, messages |-> <<>>]

JSONArray(messages) == [json |-> TRUE, array |-> TRUE, messages |-> messages]

ExecutionContents ==
    {NotJSON,
     [json |-> TRUE, array |-> FALSE, messages |-> <<>>],
     JSONArray(<<>>),
     JSONArray(<<[isNull |-> TRUE, type |-> "", content |-> NoContent]>>),
     JSONArray(<<Message("assistant", StringContent(<<"the plan">>))>>),
     JSONArray(<<Message("user", StringContent(<<"make a plan">>)),
                 Message("assistant",
                         ArrayContent(<<[type |-> "text", text |-> <<" ", "step 1">>],
                                        [type |-> "tool_use", text |-> Undefined],
                                        [type |-> "text", text |-> <<>>],
                                        [type |-> "text", text |-> <<"step 2", "\n">>]>>)),
                 Message("message", NoContent)>>),
     JSONArray(<<Message("message", StringContent(<<" ">>)),
                 Message("assistant", StringContent(<<>>))>>),
     JSONArray(<<Message("message", StringContent(<<>>)),
                 Message("result", ArrayContent(<<[type |-> "text", text |-> <<"done">>]>>))>>)}

PlanContents == {<<>>, <<" ", "\n">>, <<"the plan">>, <<"\n", "the plan", " ">>}

\* line 24
IsAssistantMessage(m) ==
    \/ m.type = "assistant"
    \/ /\ m.type = "message"
       /\ m.content.kind = "array" \/ (m.content.kind = "string" /\ m.content.text # <<>>)

\* lines 30-38: the texts one message adds to planParts
RECURSIVE PartTexts(_)
PartTexts(parts) ==
    IF parts = <<>> THEN <<>>
    ELSE (IF Head(parts).type = "text" /\ Truthy(Head(parts).text)
          THEN <<Head(parts).text>> ELSE <<>>) \o PartTexts(Tail(parts))

MessageTexts(m) ==
    IF m.content.kind = "string" THEN <<m.content.text>>
    ELSE IF m.content.kind = "array" THEN PartTexts(m.content.parts)
    ELSE <<>>

\* lines 23-39
RECURSIVE planParts(_)
planParts(messages) ==
    IF messages = <<>> THEN <<>>
    ELSE (IF IsAssistantMessage(Head(messages)) THEN MessageTexts(Head(messages)) ELSE <<>>)
         \o planParts(Tail(messages))

\* Array.prototype.join("\n\n")
RECURSIVE joinParagraphs(_)
joinParagraphs(parts) ==
    IF parts = <<>> THEN <<>>
    ELSE IF Len(parts) = 1 THEN parts[1]
    ELSE parts[1] \o <<"\n", "\n">> \o joinParagraphs(Tail(parts))

\* the joined text is returned as it is
extractPlanFromExecutionFile_NoTrim(readable, content) ==
    IF \/ ~readable
       \/ ~content.json
       \/ ~content.array
       \/ \E i \in 1..Len(content.messages) : content.messages[i].isNull
    THEN [plan |-> Undefined, warned |-> TRUE]
    ELSE LET parts == planParts(content.messages)
         IN  [plan |-> IF Len(parts) > 0 THEN joinParagraphs(parts) ELSE Undefined,
              warned |-> FALSE]

\* lines 14-46; a file that cannot be read, text that is not JSON, a value
\* that is not an array and a null element all end in the catch
extractPlanFromExecutionFile(readable, content) ==
    IF \/ ~readable
       \/ ~content.json
       \/ ~content.array
       \/ \E i \in 1..Len(content.messages) : content.messages[i].isNull
    THEN [plan |-> Undefined, warned |-> TRUE]
    ELSE LET parts == planParts(content.messages)
         IN  [plan |-> IF Len(parts) > 0 THEN Trim(joinParagraphs(parts)) ELSE Undefined,
              warned |-> FALSE]

\* line 11
PLAN_FILE ==
    IF Truthy(env.PLAN_FILE) THEN env.PLAN_FILE
    ELSE (IF Truthy(env.RUNNER_TEMP) THEN env.RUNNER_TEMP ELSE <<"/tmp">>) \o <<"/plan.txt">>

\* line 12
EXECUTION_FILE == env.EXECUTION_FILE

Warn(text) == [stream |-> "stderr", text |-> text]

Stdout(text) == [stream |-> "stdout", text |-> text]

PlanInit ==
    /\ stage = "extract-plan"
    /\ pc = "planFile"
    /\ \E planFile \in {Undefined, <<>>, <<"/work/plan.txt">>},
          runnerTemp \in {Undefined, <<"/runner/temp">>},
          executionFile \in {Undefined, <<>>, <<"/work/execution.json">>} :
        env = [PLAN_FILE |-> planFile, RUNNER_TEMP |-> runnerTemp,
               EXECUTION_FILE |-> executionFile]
    /\ envRead = {}
    /\ calls = <<>>
    /\ log = <<>>
    /\ outputs = <<>>
    /\ failure = NoFailure
    /\ exitCode = Running
    /\ mem = <<>>

\* lines 11-12 and 49-58: the plan file is read if it exists
PlanReadFile ==
    /\ stage = "extract-plan" /\ pc = "planFile"
    /\ Read({"PLAN_FILE", "RUNNER_TEMP", "EXECUTION_FILE"})
    /\ \E exists \in BOOLEAN, readable \in BOOLEAN, content \in PlanContents :
        IF ~exists
        THEN /\ calls' = Append(calls, ExistsSync(PLAN_FILE, FALSE))
             /\ mem' = [plan |-> Undefined]
             /\ UNCHANGED log
        ELSE IF ~readable
        THEN /\ calls' = calls \o <<ExistsSync(PLAN_FILE, TRUE),
                                    ReadFileSync(PLAN_FILE, FALSE, <<>>)>>
             /\ mem' = [plan |-> Undefined]
             /\ log' = Append(log, Warn(<<"Failed to read plan file ">> \o PLAN_FILE))
        ELSE /\ calls' = calls \o <<ExistsSync(PLAN_FILE, TRUE),
                                    ReadFileSync(PLAN_FILE, TRUE, content)>>
             /\ mem' = [plan |-> Trim(content)]
             /\ UNCHANGED log
    /\ pc' = "fallback"
    /\ UNCHANGED <<stage, env, outputs, failure, exitCode>>

\* the execution file is consulted whether or not the plan file gave a plan
PlanFallback_AlwaysConsulted ==
    /\ stage = "extract-plan" /\ pc = "fallback"
    /\ IF Truthy(EXECUTION_FILE)
       THEN \E exists \in BOOLEAN, readable \in BOOLEAN, content \in ExecutionContents :
            IF ~exists
            THEN /\ calls' = Append(calls, ExistsSync(EXECUTION_FILE, FALSE))
                 /\ UNCHANGED <<mem, log>>
            ELSE LET extracted == extractPlanFromExecutionFile(readable, content)
                 IN  /\ calls' = calls \o
                          <<ExistsSync(EXECUTION_FILE, TRUE),
                            ReadFileSync(EXECUTION_FILE, readable,
                                         IF readable THEN content ELSE NotJSON)>>
                     /\ mem' = [plan |-> extracted.plan]
                     /\ log' = log
                          \o <<Warn(<<"Plan file not found, attempting to extract from execution_file...">>)>>
                          \o (IF extracted.warned
                              THEN <<Warn(<<"Failed to extract plan from execution file">>)>>
                              ELSE <<>>)
       ELSE UNCHANGED <<calls, mem, log>>
    /\ pc' = "emit"
    /\ UNCHANGED <<stage, env, envRead, outputs, failure, exitCode>>

\* lines 60-64: without a plan, the execution file is tried if it is named and exists
PlanFallback ==
    /\ stage = "extract-plan" /\ pc = "fallback"
    /\ IF ~Truthy(mem.plan) /\ Truthy(EXECUTION_FILE)
       THEN \E exists \in BOOLEAN, readable \in BOOLEAN, content \in ExecutionContents :
            IF ~exists
            THEN /\ calls' = Append(calls, ExistsSync(EXECUTION_FILE, FALSE))
                 /\ UNCHANGED <<mem, log>>
            ELSE LET extracted == extractPlanFromExecutionFile(readable, content)
                 IN  /\ calls' = calls \o
                          <<ExistsSync(EXECUTION_FILE, TRUE),
                            ReadFileSync(EXECUTION_FILE, readable,
                                         IF readable THEN content ELSE NotJSON)>>
                     /\ mem' = [plan |-> extracted.plan]
                     /\ log' = log
                          \o <<Warn(<<"Plan file not found, attempting to extract from execution_file...">>)>>
                          \o (IF extracted.warned
                              THEN <<Warn(<<"Failed to extract plan from execution file">>)>>
                              ELSE <<>>)
       ELSE UNCHANGED <<calls, mem, log>>
    /\ pc' = "emit"
    /\ UNCHANGED <<stage, env, envRead, outputs, failure, exitCode>>

PlanNotFound ==
    <<"Plan not found. Checked ">> \o PLAN_FILE
    \o (IF Truthy(EXECUTION_FILE) THEN <<" and ">> \o EXECUTION_FILE ELSE <<>>)

\* lines 66-83: the plan is printed, or the script fails
PlanEmit ==
    /\ stage = "extract-plan" /\ pc = "emit"
    /\ IF ~Truthy(mem.plan)
       THEN /\ log' = Append(log, Warn(<<"Failed to extract plan: ">> \o PlanNotFound))
            /\ Fail("Failed to extract plan: ", PlanNotFound)
       ELSE /\ log' = Append(log, Stdout(mem.plan))
            /\ Return
    /\ UNCHANGED <<stage, env, envRead, calls, outputs, mem>>

PlanNext ==
    \/ PlanReadFile
    \/ PlanFallback
    \/ PlanEmit

SpecPlan == PlanInit /\ [][PlanNext]_vars

(***************************************************************************)
(* Properties of the plan extractor                                        *)
(***************************************************************************)
PlanStage == stage = "extract-plan" /\ pc # "planFile"

PlanFileReads == {i \in 1..Len(calls) : calls[i].op = "readFileSync"
                                           /\ calls[i].args = <<PLAN_FILE>>}

\* the plan file did not exist, could not be read, or was blank
PlanFileGaveNothing ==
    /\ PlanStage
    /\ \/ ~calls[1].ok
       \/ \E i \in PlanFileReads : ~calls[i].ok
       \/ \E i \in PlanFileReads : \A k \in 1..Len(calls[i].content) :
                                        IsSpace(calls[i].content[k])

\* the plan file did not exist, or was empty or blank
PlanFileAbsentOrBlank ==
    /\ PlanStage
    /\ \/ ~calls[1].ok
       \/ \E i \in PlanFileReads : /\ calls[i].ok
                                   /\ \A k \in 1..Len(calls[i].content) :
                                         IsSpace(calls[i].content[k])

OtherSourceCalls == {i \in 1..Len(calls) : calls[i].args # <<PLAN_FILE>>}

PrintedPlans == {i \in 1..Len(log) : log[i].stream = "stdout"}

\* the text the execution file that was read gives, if one was read
ExecutionFileText ==
    IF \E i \in OtherSourceCalls : calls[i].op = "readFileSync"
    THEN LET i == CHOOSE k \in OtherSourceCalls : calls[k].op = "readFileSync"
         IN  extractPlanFromExecutionFile(calls[i].ok, calls[i].content).plan
    ELSE Undefined

\* the text is not empty and does not begin or end with white space
NonBlankTrimmed(s) == s # Undefined /\ Len(s) > 0 /\ ~IsSpace(s[1]) /\ ~IsSpace(s[Len(s)])

\* C20, as stated: whenever the plan file does not exist or is blank after
\* trimming, the extractor exits 1 with nothing printed as the plan, the error
\* names the plan-file path, and no other source is consulted.
C20_Original ==
    PlanFileAbsentOrBlank =>
        /\ OtherSourceCalls = {}
        /\ PrintedPlans = {}
        /\ pc = "done" =>
             /\ exitCode = 1
             /\ Contains(failure, PLAN_FILE)

\* C20, amended: when the plan file does not exist, cannot be read or is
\* blank after trimming, the only other source consulted is EXECUTION_FILE,
\* if it is set; the extractor exits 1 with nothing printed as the plan
\* exactly when that file gives no non-blank text, and then the error names
\* the plan-file path and the EXECUTION_FILE path if it is set; otherwise
\* the text of the execution file is printed.  With a plan in the plan file
\* the execution file is not looked at.
C20_FailsWithoutPlanOrFallback ==
    PlanStage =>
        /\ \A i \in OtherSourceCalls :
              /\ calls[i].args = <<EXECUTION_FILE>> /\ Truthy(EXECUTION_FILE)
              /\ PlanFileGaveNothing
        /\ (PlanFileGaveNothing /\ pc = "done") =>
              IF Truthy(ExecutionFileText)
              THEN /\ exitCode = 0
                   /\ \A i \in PrintedPlans : log[i].text = ExecutionFileText
                   /\ PrintedPlans # {}
              ELSE /\ exitCode = 1
                   /\ PrintedPlans = {}
                   /\ Contains(failure, PLAN_FILE)
                   /\ Truthy(EXECUTION_FILE) => Contains(failure, EXECUTION_FILE)

C20_Witness ==
    /\ PlanFileGaveNothing /\ pc = "done" /\ exitCode = 1
    /\ env.PLAN_FILE = Undefined /\ env.RUNNER_TEMP = Undefined
    /\ calls[1] = ExistsSync(<<"/tmp", "/plan.txt">>, FALSE)
    /\ Len(calls) = 3 /\ calls[3].ok /\ calls[3].content.json
    /\ ExecutionFileText = <<>>
    /\ failure = <<"Failed to extract plan: ", "Plan not found. Checked ", "/tmp", "/plan.txt",
                   " and ", "/work/execution.json">>

C20_WitnessFallback ==
    /\ PlanFileAbsentOrBlank /\ pc = "done" /\ exitCode = 0
    /\ Len(calls) = 4 /\ calls[2].content = <<" ", "\n">>
    /\ \E i \in PrintedPlans : log[i].text = <<"step 1", "\n", "\n", "step 2">>

(***************************************************************************)
(* commit-and-push.ts                                                      *)
(***************************************************************************)
Git(op, args, ok) == [kind |-> "git", op |-> op, args |-> args, ok |-> ok]

CommitInit ==
    /\ stage = "commit-and-push"
    /\ pc = "validate"
    /\ \E branchName \in {Undefined, <<>>, <<"ai/pr-42-1742">>, <<"main">>},
          prNumber \in {Undefined, <<"42">>},
          provider \in {Undefined, <<"codex">>} :
        env = [BRANCH_NAME |-> branchName, PR_NUMBER |-> prNumber, PROVIDER |-> provider]
    /\ envRead = {}
    /\ calls = <<>>
    /\ log = <<>>
    /\ outputs = <<>>
    /\ failure = NoFailure
    /\ exitCode = Running
    /\ mem = <<>>

CommitFail(message) == Fail("Failed to commit and push: ", message)

\* lines 12-21
CommitValidate ==
    /\ stage = "commit-and-push" /\ pc = "validate"
    /\ IF ~Truthy(env.BRANCH_NAME)
       THEN /\ Read({"BRANCH_NAME"})
            /\ CommitFail(<<"BRANCH_NAME environment variable is required">>)
            /\ UNCHANGED mem
       ELSE /\ Read({"BRANCH_NAME", "PR_NUMBER", "PROVIDER"})
            /\ mem' = [branchName |-> env.BRANCH_NAME,
                       prNumber |-> IF Truthy(env.PR_NUMBER) THEN env.PR_NUMBER
                                    ELSE <<"unknown">>,
                       provider |-> IF Truthy(env.PROVIDER) THEN env.PROVIDER ELSE <<"ai">>]
            /\ pc' = "status"
            /\ UNCHANGED <<failure, exitCode>>
    /\ UNCHANGED <<stage, env, calls, log, outputs>>

\* a failed status check fails the stage
CommitStatus_FailureFatal ==
    /\ stage = "commit-and-push" /\ pc = "status"
    /\ \E ok \in BOOLEAN,
          statusOutput \in {<<>>, <<" ", "\n">>, <<" ", "M src/a.ts", "\n">>} :
        LET hasChanges == ok /\ Len(Trim(statusOutput)) > 0
        IN  /\ calls' = Append(calls, Git("status", << <<"--porcelain">> >>, ok)
                                      @@ ("output" :> IF ok THEN statusOutput ELSE <<>>))
            /\ mem' = mem @@ ("hasChanges" :> hasChanges)
            /\ IF ~ok
               THEN /\ CommitFail(<<"Command failed: git status">>)
                    /\ UNCHANGED <<log, outputs>>
               ELSE IF ~hasChanges
               THEN /\ log' = log \o << <<"No changes detected, skipping commit and push">> >>
                    /\ outputs' = setOutput(outputs, "has_changes", <<"false">>)
                    /\ Return
               ELSE /\ pc' = "configName"
                    /\ UNCHANGED <<log, outputs, failure, exitCode>>
    /\ UNCHANGED <<stage, env, envRead>>

\* the commands are run whatever the status check says
CommitStatus_ChangesAssumed ==
    /\ stage = "commit-and-push" /\ pc = "status"
    /\ \E ok \in BOOLEAN,
          statusOutput \in {<<>>, <<" ", "\n">>, <<" ", "M src/a.ts", "\n">>} :
        LET hasChanges == ok /\ Len(Trim(statusOutput)) > 0
        IN  /\ calls' = Append(calls, Git("status", << <<"--porcelain">> >>, ok)
                                      @@ ("output" :> IF ok THEN statusOutput ELSE <<>>))
            /\ mem' = mem @@ ("hasChanges" :> hasChanges)
            /\ log' = log \o (IF ok THEN <<>> ELSE << <<"Failed to check git status: ">> >>)
            /\ pc' = "configName"
            /\ UNCHANGED <<outputs, failure, exitCode>>
    /\ UNCHANGED <<stage, env, envRead>>

\* lines 23-42: git status --porcelain; a failure counts as "no changes"
CommitStatus ==
    /\ stage = "commit-and-push" /\ pc = "status"
    /\ \E ok \in BOOLEAN,
          statusOutput \in {<<>>, <<" ", "\n">>, <<" ", "M src/a.ts", "\n">>} :
        LET hasChanges == ok /\ Len(Trim(statusOutput)) > 0
        IN  /\ calls' = Append(calls, Git("status", << <<"--porcelain">> >>, ok)
                                      @@ ("output" :> IF ok THEN statusOutput ELSE <<>>))
            /\ mem' = mem @@ ("hasChanges" :> hasChanges)
            /\ IF ~hasChanges
               THEN /\ log' = log
                        \o (IF ok THEN <<>> ELSE << <<"Failed to check git status: ">> >>)
                        \o << <<"No changes detected, skipping commit and push">> >>
                    /\ outputs' = setOutput(outputs, "has_changes", <<"false">>)
                    /\ Return
               ELSE /\ pc' = "configName"
                    /\ UNCHANGED <<log, outputs, failure, exitCode>>
    /\ UNCHANGED <<stage, env, envRead>>

\* one git command of lines 44-69: on failure the catch of lines 80-84
CommitGit(op, args, next) ==
    /\ \E ok \in BOOLEAN :
        /\ calls' = Append(calls, Git(op, args, ok))
        /\ IF ok
           THEN /\ pc' = next
                /\ UNCHANGED <<failure, exitCode>>
           ELSE CommitFail(<<"Command failed: git ", op>>)
    /\ UNCHANGED <<stage, env, envRead, log, outputs, mem>>

\* lines 45-48
CommitConfigName ==
    /\ stage = "commit-and-push" /\ pc = "configName"
    /\ CommitGit("config", << <<"user.name">>, <<"github-ai-actions[bot]">> >>, "configEmail")

\* lines 49-56
CommitConfigEmail ==
    /\ stage = "commit-and-push" /\ pc = "configEmail"
    /\ CommitGit("config", << <<"user.email">>,
                           <<"github-ai-actions[bot]@users.noreply.github.com">> >>, "add")

\* lines 59-62
CommitAdd ==
    /\ stage = "commit-and-push" /\ pc = "add"
    /\ CommitGit("add", << <<"-A">> >>, "commit")

commitMessage ==
    <<"chore: Automated changes from ">> \o mem.provider \o <<" for PR #">> \o mem.prNumber

\* lines 65-69
CommitCommit ==
    /\ stage = "commit-and-push" /\ pc = "commit"
    /\ CommitGit("commit", << <<"-m">>, commitMessage >>, "push")

\* the outputs are set although the push failed
CommitPush_ReportsAnyway ==
    /\ stage = "commit-and-push" /\ pc = "push"
    /\ \E ok \in BOOLEAN :
        /\ calls' = Append(calls, Git("push", << <<"origin">>, mem.branchName >>, ok))
        /\ log' = Append(log, <<"Committed and pushed changes to ">> \o mem.branchName)
        /\ outputs' = setOutput(setOutput(outputs, "has_changes", <<"true">>),
                                "branch_name", mem.branchName)
        /\ IF ok THEN Return ELSE CommitFail(<<"Command failed: git ", "push">>)
    /\ UNCHANGED <<stage, env, envRead, mem>>

\* lines 71-84: git push origin <branch>, then the outputs
CommitPush ==
    /\ stage = "commit-and-push" /\ pc = "push"
    /\ \E ok \in BOOLEAN :
        /\ calls' = Append(calls, Git("push", << <<"origin">>, mem.branchName >>, ok))
        /\ IF ok
           THEN /\ log' = Append(log, <<"Committed and pushed changes to ">> \o mem.branchName)
                /\ outputs' = setOutput(setOutput(outputs, "has_changes", <<"true">>),
                                        "branch_name", mem.branchName)
                /\ Return
           ELSE /\ CommitFail(<<"Command failed: git ", "push">>)
                /\ UNCHANGED <<log, outputs>>
    /\ UNCHANGED <<stage, env, envRead, mem>>

CommitNext ==
    \/ CommitValidate
    \/ CommitStatus
    \/ CommitConfigName
    \/ CommitConfigEmail
    \/ CommitAdd
    \/ CommitCommit
    \/ CommitPush

SpecCommit == CommitInit /\ [][CommitNext]_vars

(***************************************************************************)
(* Properties of commit-and-push                                           *)
(***************************************************************************)
StatusChecked == stage = "commit-and-push" /\ Len(calls) >= 1 /\ calls[1].op = "status"

\* nothing but the status check was run, false is reported, the exit code is 0
ReportedNoChanges ==
    /\ Len(calls) = 1
    /\ \A i \in 1..Len(calls) : calls[i].op \notin {"config", "add", "commit", "push"}
    /\ pc = "done" /\ exitCode = 0 /\ failure = NoFailure
    /\ outputs = << <<"has_changes", <<"false">> >> >>

\* C21: when git status succeeds and shows no changes, has_changes=false is
\* set, the stage ends with exit code 0, and no git config, add, commit or
\* push is run.
C21_NoChangesNoCommit ==
    (StatusChecked /\ calls[1].ok /\ Trim(calls[1].output) = <<>>) => ReportedNoChanges

C21_Witness ==
    /\ StatusChecked /\ calls[1].ok /\ calls[1].output = <<" ", "\n">>
    /\ ReportedNoChanges
    /\ log = << <<"No changes detected, skipping commit and push">> >>

\* C22: when the git status check itself fails, the stage ends as in the
\* no-changes case: has_changes=false is reported, nothing is configured,
\* staged, committed or pushed, and the exit code is 0.
C22_StatusFailureMeansNoChanges ==
    (StatusChecked /\ ~calls[1].ok) => ReportedNoChanges

C22_Witness ==
    /\ StatusChecked /\ ~calls[1].ok
    /\ ReportedNoChanges
    /\ log = << <<"Failed to check git status: ">>,
                <<"No changes detected, skipping commit and push">> >>

ChangesDetected == StatusChecked /\ calls[1].ok /\ Trim(calls[1].output) # <<>>

\* the commands that follow the status check, in the order of the code
ExpectedCommands ==
    << [op |-> "config", args |-> << <<"user.name">>, <<"github-ai-actions[bot]">> >>],
       [op |-> "config", args |-> << <<"user.email">>,
                           <<"github-ai-actions[bot]@users.noreply.github.com">> >>],
       [op |-> "add", args |-> << <<"-A">> >>],
       [op |-> "commit",
        args |-> << <<"-m">>,
                    <<"chore: Automated changes from ">>
                    \o (IF Truthy(env.PROVIDER) THEN env.PROVIDER ELSE <<"ai">>)
                    \o <<" for PR #">>
                    \o (IF Truthy(env.PR_NUMBER) THEN env.PR_NUMBER ELSE <<"unknown">>) >>],
       [op |-> "push", args |-> << <<"origin">>, env.BRANCH_NAME >>] >>

PushSucceeded == Len(calls) = 6 /\ calls[6].op = "push" /\ calls[6].ok

\* C25: when changes are detected, the commands run are a prefix of config
\* user.name, config user.email, add -A, commit, push, each run only after
\* the one before succeeded; the push is to origin and the BRANCH_NAME value;
\* has_changes=true and branch_name are output exactly when the push
\* succeeded, and a failed command ends the stage with exit 1 and no output.
C25_CommitPushOrdering ==
    ChangesDetected =>
        /\ Len(calls) <= 6
        /\ \A i \in 2..Len(calls) :
              /\ calls[i].op = ExpectedCommands[i - 1].op
              /\ calls[i].args = ExpectedCommands[i - 1].args
              /\ calls[i - 1].ok
        /\ IF PushSucceeded
           THEN /\ outputs = << <<"has_changes", <<"true">> >>,
                                <<"branch_name", env.BRANCH_NAME>> >>
                /\ pc = "done" /\ exitCode = 0
           ELSE outputs = <<>>
        /\ (\E i \in 1..Len(calls) : ~calls[i].ok) =>
              /\ pc = "done" /\ exitCode = 1
              /\ ~calls[Len(calls)].ok
        /\ pc = "done" => (PushSucceeded \/ ~calls[Len(calls)].ok)

C25_Witness ==
    /\ ChangesDetected /\ PushSucceeded
    /\ env.BRANCH_NAME = <<"ai/pr-42-1742">>
    /\ calls[6].args = << <<"origin">>, <<"ai/pr-42-1742">> >>
    /\ calls[5].args[2] = <<"chore: Automated changes from ", "codex", " for PR #", "42">>
    /\ OutputValue("has_changes") = <<"true">>
    /\ OutputValue("branch_name") = <<"ai/pr-42-1742">>

C25_WitnessCommitFailed ==
    /\ ChangesDetected /\ Len(calls) = 5 /\ ~calls[5].ok
    /\ pc = "done" /\ exitCode = 1 /\ outputs = <<>>

(***************************************************************************)
(* The six stage entry points, each run as a process of its own            *)
(***************************************************************************)
StagesInit ==
    \/ ResolverInit
    \/ PrepareInit
    \/ BranchInit
    \/ LLMInit
    \/ PlanInit
    \/ CommitInit

StagesNext ==
    \/ ResolverNext
    \/ PrepareNext
    \/ BranchNext
    \/ LLMNext
    \/ PlanNext
    \/ CommitNext

SpecStages == StagesInit /\ [][StagesNext]_vars

(***************************************************************************)
(* Properties of all stages                                                *)
(***************************************************************************)
StageNames ==
    {"extract-pr-number", "prepare-prompt", "create-branch", "run-llm", "extract-plan",
     "commit-and-push"}

\* the words each stage puts before the error it reports
FailurePrefix ==
    [n \in StageNames |->
        CASE n = "extract-pr-number" -> {"Failed to extract PR number: "}
          [] n = "prepare-prompt" -> {"Failed to prepare prompt: "}
          [] n = "create-branch" -> {"Failed to create branch: "}
          [] n = "run-llm" -> {"LLM execution failed: ", "Failed to run LLM: "}
          [] n = "extract-plan" -> {"Failed to extract plan: "}
          [] n = "commit-and-push" -> {"Failed to commit and push: "}]

FailedCalls == {i \in 1..Len(calls) : "ok" \in DOMAIN calls[i] /\ ~calls[i].ok}

\* the failures the stages are meant to live with: the pre-fetch and the
\* diff, the status check, the checkout from origin/<base> when the fallback
\* works, a plan file or execution log that is absent or unreadable
Tolerated(call) ==
    \/ call.kind = "git" /\ call.op \in {"fetch", "diff", "status"}
    \/ call.kind = "git" /\ call.op = "checkout" /\ Len(call.args) = 3
    \/ call.kind = "file" /\ call.op \in {"existsSync", "readFileSync"}

\* what a stage that ended well has to show
StageSucceeded ==
    CASE stage = "extract-pr-number" ->
            /\ "pr_number" \in OutputNames
            /\ "response" \in DOMAIN mem => mem.response.ok
      [] stage = "prepare-prompt" ->
            /\ "final_prompt" \in OutputNames
            /\ mem.response.ok /\ mem.response.pullRequest
      [] stage = "create-branch" ->
            /\ "branch_name" \in OutputNames
            /\ calls[Len(calls)].op = "checkout" /\ calls[Len(calls)].ok
      [] stage = "run-llm" ->
            /\ mem.result.success
            /\ mem.config.provider \in {<<"claude">>, <<"codex">>}
            /\ calls # <<>> /\ calls[Len(calls)].ok
      [] stage = "extract-plan" ->
            \E i \in 1..Len(log) : log[i].stream = "stdout" /\ Truthy(log[i].text)
      [] stage = "commit-and-push" ->
            \/ outputs = << <<"has_changes", <<"false">> >> >>
            \/ /\ OutputValue("has_changes") = <<"true">>
               /\ calls[Len(calls)].op = "push" /\ calls[Len(calls)].ok

\* C23: every stage ends with exit code 1 and a reported error when a fatal
\* error occurred, and with exit code 0 otherwise: a run that ends with 0
\* reported no error, has the result of its stage to show, and every call
\* that failed in it is one the stage is meant to live with; a run that ends
\* with 1 reported the error under the stage's prefix; until it ends no exit
\* code is set.
C23_ExitCodes ==
    /\ stage \in StageNames
    /\ IF pc # "done"
       THEN exitCode = Running /\ failure = NoFailure
       ELSE /\ exitCode \in {0, 1}
            /\ exitCode = 0 =>
                 /\ failure = NoFailure
                 /\ StageSucceeded
                 /\ \A i \in FailedCalls : Tolerated(calls[i])
            /\ exitCode = 1 =>
                 /\ failure # NoFailure
                 /\ failure[1] \in FailurePrefix[stage]
                 /\ Len(failure) >= 2

C23_Witness ==
    /\ stage = "commit-and-push" /\ pc = "done" /\ exitCode = 1
    /\ Len(calls) = 5 /\ calls[5].op = "commit" /\ ~calls[5].ok
    /\ failure = <<"Failed to commit and push: ", "Command failed: git ", "commit">>

C23_WitnessLLM ==
    /\ stage = "run-llm" /\ pc = "done" /\ exitCode = 1
    /\ failure = <<"Failed to run LLM: ", "PROMPT environment variable is required">>

ExternalCalls == {i \in 1..Len(calls) : calls[i].kind \in {"network", "git", "cli"}}

SameOperation(a, b) == a.kind = b.kind /\ a.op = b.op /\ a.args = b.args

\* C24: in a run of a stage no external operation (a network call, a git
\* command with given arguments, a CLI execution) is issued twice, so none is
\* re-issued after it failed; the resolver makes at most one network read,
\* and exactly one when it gets to the issue lookup.
C24_NoRetries ==
    /\ \A i \in ExternalCalls : \A j \in ExternalCalls :
          i < j => ~SameOperation(calls[i], calls[j])
    /\ \A i \in NetworkCalls : \A j \in NetworkCalls : i < j => calls[i].op # calls[j].op
    /\ stage = "extract-pr-number" =>
          /\ Cardinality(NetworkCalls) <= 1
          /\ (pc = "issues.get" \/ "response" \in DOMAIN mem) => Cardinality(NetworkCalls) = 1

C24_Witness ==
    /\ stage = "extract-pr-number" /\ pc = "done" /\ exitCode = 1
    /\ "response" \in DOMAIN mem /\ ~mem.response.ok
    /\ Cardinality(NetworkCalls) = 1 /\ Len(calls) = 1

C24_WitnessBranch ==
    /\ stage = "create-branch" /\ pc = "done" /\ exitCode = 1
    /\ Len(calls) = 3 /\ \A i \in 1..3 : ~calls[i].ok

(***************************************************************************)
(* Properties of prompt preparation: base branch and final prompt          *)
(***************************************************************************)
PrepareValidated == stage = "prepare-prompt" /\ "baseBranch" \in DOMAIN mem

RepositoryLookups == {i \in 1..Len(calls) : calls[i].op = "repos.get"}

DefaultBranches == {r.default_branch : r \in {x \in ReposResponses : x.ok}}

\* C26: with a non-empty BASE_BRANCH the base branch is that value and no
\* repository lookup is made; otherwise one lookup is made first, and either
\* it fails and the stage fails with no output and no query for the pull
\* request, or the base branch is the repository's default branch; the
\* base_branch output is the base branch so resolved.
C26_BaseBranchResolved ==
    PrepareValidated =>
        /\ IF Truthy(env.BASE_BRANCH)
           THEN /\ RepositoryLookups = {}
                /\ mem.baseBranch = env.BASE_BRANCH
           ELSE /\ RepositoryLookups = {1}
                /\ pc # "repos.get" =>
                     \/ /\ GraphqlQueries = {}
                        /\ pc = "done" /\ exitCode = 1 /\ outputs = <<>>
                     \/ /\ GraphqlQueries # {}
                        /\ mem.baseBranch \in DefaultBranches
        /\ "base_branch" \in OutputNames => OutputValue("base_branch") = mem.baseBranch
        /\ (pc = "done" /\ exitCode = 0) => "base_branch" \in OutputNames

C26_Witness ==
    /\ PrepareValidated /\ pc = "done" /\ exitCode = 0
    /\ env.BASE_BRANCH = <<>>
    /\ calls[1].op = "repos.get"
    /\ OutputValue("base_branch") = <<"main">>
    /\ mem.prData.baseBranch = <<"dev">>

C26_WitnessExplicit ==
    /\ PrepareValidated /\ pc = "done" /\ exitCode = 0
    /\ RepositoryLookups = {}
    /\ OutputValue("base_branch") = <<"release">>

C26_WitnessLookupFailed ==
    /\ PrepareValidated /\ pc = "done" /\ exitCode = 1
    /\ Len(calls) = 1 /\ calls[1].op = "repos.get"
    /\ failure = <<"Failed to prepare prompt: ", "Not Found">>

PromptPrepared ==
    /\ stage = "prepare-prompt" /\ pc = "done" /\ exitCode = 0
    /\ "PLAN" \notin DOMAIN env

\* the eight values of the claim, taken from the inputs and the answer to the query
ClaimedVariables ==
    LET pr == mem.response
    IN  << <<"PR_DIFF", mem.prData.diff>>,
           <<"PR_TITLE", pr.title>>,
           <<"PR_NUMBER", String(parseIntNoRadix(env.PR_NUMBER).val)>>,
           <<"PR_AUTHOR", IF pr.author = Undefined THEN <<"unknown">> ELSE pr.author>>,
           <<"PR_BODY", pr.body>>,
           <<"CHANGED_FILES", IF pr.files THEN join(pr.paths, "\n") ELSE <<>> >>,
           <<"REPOSITORY", env.REPOSITORY>>,
           <<"BASE_BRANCH", pr.baseRefName>> >>

ValueHoldsPlaceholder ==
    \E n \in 1..Len(ClaimedVariables) : \E name \in RecognizedNames :
        Contains(ClaimedVariables[n][2], Placeholder(name))

\* C27, as stated: final_prompt is the template with each of the eight
\* recognized placeholders replaced by its value: the diff or its
\* placeholder, the title, the decimal PR number, the author login or
\* "unknown", the body, the changed paths joined with newlines (empty when
\* the files field is absent), the REPOSITORY value, and the pull request's
\* own base ref name.
C27_Original ==
    PromptPrepared =>
        OutputValue("final_prompt")
            = SubstituteOnce(Mark(env.PROMPT_TEMPLATE), ClaimedVariables)

\* the same, for pull requests none of whose values holds the text of a
\* recognized placeholder
C27_WithoutPlaceholderInValues ==
    (PromptPrepared /\ ~ValueHoldsPlaceholder) =>
        /\ OutputValue("final_prompt")
              = SubstituteOnce(Mark(env.PROMPT_TEMPLATE), ClaimedVariables)
        /\ (\E i \in FailedGitCalls : TRUE) =>
              \E git \in GitOutcomes : /\ ~(git.fetchOk /\ git.diffOk)
                                        /\ mem.prData.diff = UnableToFetchDiff(git.message)

(***************************************************************************)
(* Properties of the LLM runner: the extra arguments                       *)
(***************************************************************************)
\* the positions where a maximal run of non-space tokens of s starts
TokenStarts(s) ==
    {i \in 1..Len(s) : ~IsSpace(s[i]) /\ (i = 1 \/ IsSpace(s[i - 1]))}

\* the last position of the run of non-space tokens that starts at i
TokenEnd(s, i) ==
    CHOOSE j \in i..Len(s) :
        /\ \A k \in i..j : ~IsSpace(s[k])
        /\ (j = Len(s) \/ IsSpace(s[j + 1]))

\* the non-empty whitespace-separated tokens of s, in order
WhitespaceTokens(s) ==
    [n \in 1..Cardinality(TokenStarts(s)) |->
        LET i == CHOOSE i \in TokenStarts(s) :
                    Cardinality({j \in TokenStarts(s) : j < i}) = n - 1
        IN  SubSeq(s, i, TokenEnd(s, i))]

ValidJSON(s) == IsJSONArray(NonSpace(s)) \/ IsJSONScalar(NonSpace(s))

\* what an args string is to add to the argument vector
AppendedArguments(s) ==
    IF s = Undefined THEN <<>>
    ELSE IF ValidJSON(s) /\ IsJSONArray(NonSpace(s)) THEN JSONArrayElements(NonSpace(s))
    ELSE IF ValidJSON(s) THEN <<>>
    ELSE WhitespaceTokens(s)

\* the subprocesses that run the prompt
PromptRuns(op) ==
    {i \in Subprocesses : calls[i].op = op /\ calls[i].args # << <<"--version">> >>}

\* C28: the argument vector of the claude run is the vector built without
\* extra arguments followed by what CLAUDE_ARGS adds, and that of the codex
\* run is "exec", what CODEX_ARGS adds, and the prompt file path last; an
\* args string adds the elements of its JSON array in order, its non-empty
\* whitespace-separated tokens in order when it is not valid JSON, and
\* nothing when it is valid JSON that is not an array.
C28_ExtraArguments ==
    stage = "run-llm" =>
        /\ \A i \in PromptRuns("claude") :
              calls[i].args =
                  ClaudeCommand([mem.config EXCEPT !.claudeArgs = Undefined])
                  \o AppendedArguments(env.CLAUDE_ARGS)
        /\ \A i \in PromptRuns("codex") :
              /\ calls[i].args =
                     << <<"exec">> >> \o AppendedArguments(env.CODEX_ARGS)
                     \o << <<"/tmp/codex-prompt.txt">> >>
              /\ calls[i].args[Len(calls[i].args)] = <<"/tmp/codex-prompt.txt">>

C28_Witness ==
    /\ stage = "run-llm"
    /\ env.CODEX_ARGS = <<"[", "\"", "--verbose", "\"", ",", " ", "\"", "--debug", "\"", "]">>
    /\ \E i \in PromptRuns("codex") :
          calls[i].args = << <<"exec">>, <<"--verbose">>, <<"--debug">>,
                             <<"/tmp/codex-prompt.txt">> >>

C28_WitnessTokens ==
    /\ stage = "run-llm"
    /\ env.CLAUDE_ARGS = <<" ", "--max-turns", " ", "\t", "3", "\n">>
    /\ \E i \in PromptRuns("claude") :
          /\ SubSeq(calls[i].args, Len(calls[i].args) - 1, Len(calls[i].args))
                 = << <<"--max-turns">>, <<"3">> >>
          /\ calls[i].args[Len(calls[i].args) - 2] = <<"--no-session-persistence">>

C28_WitnessNotArray ==
    /\ stage = "run-llm"
    /\ env.CODEX_ARGS \in {<<"{", "}">>, <<"null">>}
    /\ \E i \in PromptRuns("codex") :
          calls[i].args = << <<"exec">>, <<"/tmp/codex-prompt.txt">> >>

C28_WitnessBlank ==
    /\ stage = "run-llm"
    /\ env.CLAUDE_ARGS = <<" ">>
    /\ \E i \in PromptRuns("claude") :
          calls[i].args[Len(calls[i].args)] = <<"--no-session-persistence">>

(***************************************************************************)
(* Properties of the PR-number resolver: the configuration comes first     *)
(***************************************************************************)
ConfigurationMissing == ~Truthy(env.GITHUB_REPOSITORY) \/ ~Truthy(env.GITHUB_TOKEN)

EventNumbers == {"GITHUB_EVENT_PULL_REQUEST_NUMBER", "GITHUB_EVENT_ISSUE_NUMBER"}

MissingConfigurationError ==
    <<"Failed to extract PR number: ">>
    \o (IF ~Truthy(env.GITHUB_REPOSITORY)
        THEN <<"GITHUB_REPOSITORY environment variable is required">>
        ELSE <<"GITHUB_TOKEN environment variable is required">>)

\* C29: without a usable explicit number and with GITHUB_REPOSITORY or
\* GITHUB_TOKEN unset or empty, the run never reads the pull-request event
\* number or the issue number, makes no call, outputs nothing, and ends with
\* exit code 1 and the error that names the missing variable (the repository
\* first), whatever the event variables hold.
C29_MissingConfigurationFailsFirst ==
    (stage = "extract-pr-number" /\ ~UsableExplicit /\ ConfigurationMissing) =>
        /\ envRead \cap EventNumbers = {}
        /\ calls = <<>> /\ outputs = <<>>
        /\ pc \in {"explicit", "context", "done"}
        /\ pc = "done" => (exitCode = 1 /\ failure = MissingConfigurationError)

C29_Witness ==
    /\ stage = "extract-pr-number" /\ pc = "done" /\ exitCode = 1
    /\ ~UsableExplicit
    /\ env.GITHUB_REPOSITORY = <<"o", "/", "r">> /\ env.GITHUB_TOKEN = Undefined
    /\ env.GITHUB_EVENT_PULL_REQUEST_NUMBER = <<"1", "7">>
    /\ envRead = {"PR_NUMBER", "GITHUB_EVENT_NAME", "GITHUB_REPOSITORY", "GITHUB_TOKEN"}
    /\ failure = <<"Failed to extract PR number: ",
                   "GITHUB_TOKEN environment variable is required">>
    /\ outputs = <<>>

C29_WitnessRepository ==
    /\ stage = "extract-pr-number" /\ pc = "done" /\ exitCode = 1
    /\ env.PR_NUMBER = <<"a", "b">>
    /\ env.GITHUB_REPOSITORY = <<>> /\ env.GITHUB_TOKEN = <<>>
    /\ env.GITHUB_EVENT_PULL_REQUEST_NUMBER = <<"1", "7">>
    /\ failure = <<"Failed to extract PR number: ",
                   "GITHUB_REPOSITORY environment variable is required">>

(***************************************************************************)
(* Properties of the plan extractor: what is printed                       *)
(***************************************************************************)
ExecutionLogReads == {i \in OtherSourceCalls : calls[i].op = "readFileSync"}

\* the execution log could not be read, or is not a JSON array of messages
UnreadableOrMalformed(call) ==
    \/ ~call.ok
    \/ ~call.content.json
    \/ ~call.content.array
    \/ \E k \in 1..Len(call.content.messages) : call.content.messages[k].isNull

\* C30: the extractor prints a plan exactly when it exits 0, and then it
\* prints one text, which is non-empty, has no leading or trailing white
\* space, and is the trimmed content of the plan file or the text extracted
\* from the execution log; a run in which the execution log was unreadable
\* or malformed prints no plan and ends with exit code 1.
C30_PrintedPlanTrimmed ==
    stage = "extract-plan" =>
        /\ (pc = "done" /\ exitCode = 0) <=> PrintedPlans # {}
        /\ Cardinality(PrintedPlans) <= 1
        /\ \A i \in PrintedPlans :
              /\ NonBlankTrimmed(log[i].text)
              /\ IF ExecutionLogReads = {}
                 THEN \E k \in PlanFileReads : calls[k].ok /\ log[i].text = Trim(calls[k].content)
                 ELSE \E k \in ExecutionLogReads :
                         log[i].text = Trim(joinParagraphs(planParts(calls[k].content.messages)))
        /\ \A k \in ExecutionLogReads :
              UnreadableOrMalformed(calls[k]) =>
                  /\ PrintedPlans = {}
                  /\ pc = "done" => exitCode = 1

C30_Witness ==
    /\ stage = "extract-plan" /\ pc = "done" /\ exitCode = 0
    /\ \E k \in ExecutionLogReads :
          joinParagraphs(planParts(calls[k].content.messages))
              = <<" ", "step 1", "\n", "\n", "step 2", "\n">>
    /\ \E i \in PrintedPlans : log[i].text = <<"step 1", "\n", "\n", "step 2">>

C30_WitnessPlanFile ==
    /\ stage = "extract-plan" /\ pc = "done" /\ exitCode = 0
    /\ ExecutionLogReads = {}
    /\ \E k \in PlanFileReads : calls[k].content = <<"\n", "the plan", " ">>
    /\ \E i \in PrintedPlans : log[i].text = <<"the plan">>

C30_WitnessMalformed ==
    /\ stage = "extract-plan" /\ pc = "done" /\ exitCode = 1
    /\ \E k \in ExecutionLogReads : calls[k].ok /\ ~calls[k].content.json
    /\ PrintedPlans = {}

C30_WitnessBlankLog ==
    /\ stage = "extract-plan" /\ pc = "done" /\ exitCode = 1
    /\ \E k \in ExecutionLogReads :
          /\ ~UnreadableOrMalformed(calls[k])
          /\ planParts(calls[k].content.messages) = << <<" ">>, <<>> >>

====
